---- MODULE Spec2Model ----
(***************************************************************************)
(* AlphaEarth Similarity Search: a model of the decode / dequantize /      *)
(* score pipeline, of the similarity worker protocol of useSimilarity, of  *)
(* the tile catalog cache with findTileForBoundingBox / loadEmbeddings, of *)
(* the coordinate functions and of the GeoTIFF export.                     *)
(*                                                                         *)
(* The specifications of the module:                                       *)
(*   SpecNum    the pure pipeline Int8 view -> flipVertical -> dequantize  *)
(*              -> calculateSimilarityScores on bounded raw blocks;        *)
(*   Spec       the interactive thread's useSimilarity hook, the message   *)
(*              channels and the similarity worker;                        *)
(*   SpecLive   Spec with the worker and the reply delivery weakly fair;   *)
(*   SpecIndex  concurrent loadEmbeddings calls over the catalog cache;    *)
(*   SpecGeo    getUTMZone, utmToPixel and bboxToPixelWindow on bounded    *)
(*              arguments;                                                 *)
(*   SpecTiff   the byte layout of the file downloadGeoTiff writes.        *)
(*                                                                         *)
(* Arrays keep the source's 0-based indices through At(s, i) == s[i + 1].  *)
(***************************************************************************)
EXTENDS Integers, Sequences, FiniteSets, TLC

VARIABLES
    pipe,               \* the locals of the pure functions (one record)
    embeddingData,      \* useCOGLoader state: EmbeddingData | null
    referencePixel,     \* useSimilarity state
    similarityResult,   \* useSimilarity state
    isCalculating,      \* useSimilarity state
    isWorkerReady,      \* useSimilarity state
    requestIdRef,       \* useSimilarity ref: the request counter
    pendingResultRef,   \* useSimilarity ref: metadata of the pending result
    toWorker,           \* messages posted to the worker, FIFO
    toMain,             \* messages posted by the worker, FIFO
    worker,             \* the worker's module state; loaded = embeddings and
                        \* mask are non-null
    mainRefs,           \* buffers the interactive thread can still use
    workerRefs,         \* buffers the worker can still use
    hist,               \* history of the run (loads, posts, reads, requests)
    wizard,             \* useWizard state: step, areaMode, areaSize, error
    cachedTiles,        \* cogIndex module state: TileInfo[] | null
    calls,              \* the loadEmbeddings calls in flight, by call id
    loader,             \* useCOGLoader state other than embeddingData
    decoderRegistered,  \* useCOGLoader module state
    idx                 \* history of the catalog (loads, writes, clears)

vars == <<pipe, embeddingData, referencePixel, similarityResult, isCalculating,
          isWorkerReady, requestIdRef, pendingResultRef, toWorker, toMain,
          worker, mainRefs, workerRefs, hist, wizard, cachedTiles, calls,
          loader, decoderRegistered, idx>>

appVars == <<embeddingData, referencePixel, similarityResult, isCalculating,
             isWorkerReady, requestIdRef, pendingResultRef, toWorker, toMain,
             worker, mainRefs, workerRefs, hist, wizard>>

indexVars == <<cachedTiles, calls, loader, decoderRegistered, idx>>

(***************************************************************************)
(* Bounds of the model and constants of the program.                       *)
(***************************************************************************)
\* CONFIG.EMBEDDING_BANDS is 64; the model keeps the band loop and the
\* band-interleaved layout but runs them over Bands components per pixel.
Bands == 2

\* A raster of the model has at most MaxPixels pixels.
MaxPixels == 2

PIXEL_SIZE == 10

NODATA == -128

NULL == [null |-> TRUE]

At(s, i) == s[i + 1]

RECURSIVE SumTo(_, _)
\* f(0) + ... + f(n-1) for a function f given as a sequence
SumTo(s, n) == IF n = 0 THEN 0 ELSE SumTo(s, n - 1) + s[n]

Abs(x) == IF x >= 0 THEN x ELSE -x

(***************************************************************************)
(* Float values.  A value is kept exactly, as n / (sqrt(d2) * Q^k) with    *)
(* Q = 127.5^2: first-pass dequantized values are n / Q (k = 1, d2 = 1),   *)
(* values divided by a pixel's magnitude sqrt(S) / Q are n / sqrt(S)       *)
(* (k = 0, d2 = S).  Float32 rounding is not modelled.                     *)
(***************************************************************************)
Zero == [n |-> 0, d2 |-> 1, k |-> 0]

MkVal(n, d2, k) == IF n = 0 THEN Zero ELSE [n |-> n, d2 |-> d2, k |-> k]

MinusOne == MkVal(-1, 1, 0)

One == MkVal(1, 1, 0)

Mul(a, b) == MkVal(a.n * b.n, a.d2 * b.d2, a.k + b.k)

\* the terms of one dot product share their denominator
Add(a, b) == IF a.n = 0 THEN b ELSE IF b.n = 0 THEN a
             ELSE MkVal(a.n + b.n, a.d2, a.k)

\* equality of the real numbers two values stand for (same power of Q)
ValEq(a, b) ==
    \/ a.n = 0 /\ b.n = 0
    \/ /\ a.n # 0 /\ b.n # 0
       /\ a.k = b.k
       /\ (a.n > 0) = (b.n > 0)
       /\ a.n * a.n * b.d2 = b.n * b.n * a.d2

(***************************************************************************)
(* loadEmbeddings: new Int8Array(rasterArray.buffer, ...), the signed view *)
(* of the transport bytes.                                                 *)
(***************************************************************************)
ToInt8(u) == IF u < 128 THEN u ELSE u - 256

Int8View(bytes) == [i \in 1..Len(bytes) |-> ToInt8(bytes[i])]

(***************************************************************************)
(* flipVertical                                                            *)
(***************************************************************************)
flipVertical_Identity(data, width, height, bands) == data

flipVertical(data, width, height, bands) ==
    LET rowSize == width * bands
    IN  [j \in 1..Len(data) |->
            LET y == (j - 1) \div rowSize
                i == (j - 1) % rowSize
                srcRow == height - 1 - y
            IN  At(data, srcRow * rowSize + i)]

(***************************************************************************)
(* dequantize                                                              *)
(***************************************************************************)
\* first pass, one band: sign * (|raw| / 127.5)^2, or 0 for the mask value
DequantBand(raw) ==
    IF raw = NODATA THEN Zero
    ELSE LET sign == IF raw >= 0 THEN 1 ELSE -1
         IN  MkVal(sign * Abs(raw) * Abs(raw), 1, 1)

PixelIsValid(data, pixelIdx) ==
    \A band \in 0..(Bands - 1) : At(data, pixelIdx * Bands + band) # NODATA

\* magnitude^2 of a pixel after the first pass, in units of 1 / Q^2
MagnitudeSq(data, pixelIdx) ==
    LET sq == [b \in 1..Bands |->
                 LET v == DequantBand(At(data, pixelIdx * Bands + (b - 1)))
                 IN  v.n * v.n]
    IN  SumTo(sq, Bands)

Normalize_Skipped(v, magSq) == v

\* second pass: embeddings[baseIdx + band] /= magnitude when magnitude > 0
Normalize(v, magSq) == IF magSq > 0 THEN MkVal(v.n, magSq, 0) ELSE v

dequantize(data, width, height) ==
    LET numPixels == width * height
        isValid(p) == PixelIsValid(data, p)
    IN  [embeddings |->
            [j \in 1..(numPixels * Bands) |->
                LET p == (j - 1) \div Bands
                    v == DequantBand(data[j])
                IN  IF isValid(p) THEN Normalize(v, MagnitudeSq(data, p)) ELSE v],
         mask |-> [p \in 1..numPixels |-> isValid(p - 1)]]

extractEmbeddingVector(embeddings, pixelX, pixelY, width) ==
    LET pixelIdx == pixelY * width + pixelX
        baseIdx == pixelIdx * Bands
    IN  [i \in 1..Bands |-> At(embeddings, baseIdx + (i - 1))]

(***************************************************************************)
(* similarity.worker: calculateSimilarityScores                            *)
(***************************************************************************)
RECURSIVE DotTo(_, _, _, _)
DotTo(embeddings, baseIdx, refVector, band) ==
    IF band = 0 THEN Zero
    ELSE Add(DotTo(embeddings, baseIdx, refVector, band - 1),
             Mul(At(embeddings, baseIdx + band - 1), At(refVector, band - 1)))

IsSkipped(w, pixelIdx) ==
    \/ At(w.mask, pixelIdx) = 0
    \/ w.polygonMask # NULL /\ At(w.polygonMask.m, pixelIdx) = 0

calculateSimilarityScores_NoPolygon(w, refVector) ==
    LET numPixels == w.width * w.height
    IN  [p \in 1..numPixels |->
            IF At(w.mask, p - 1) = 0 THEN MinusOne
            ELSE DotTo(w.embeddings, (p - 1) * Bands, refVector, Bands)]

\* w is the worker state {embeddings, mask, polygonMask, width, height}
calculateSimilarityScores(w, refVector) ==
    LET numPixels == w.width * w.height
    IN  [p \in 1..numPixels |->
            IF IsSkipped(w, p - 1) THEN MinusOne
            ELSE DotTo(w.embeddings, (p - 1) * Bands, refVector, Bands)]

\* initWorker: new Uint8Array(mask.map(b => b ? 1 : 0))
ToUint8Mask(mask) == [i \in 1..Len(mask) |-> IF mask[i] THEN 1 ELSE 0]

(***************************************************************************)
(* coordinates.  Longitudes and latitudes are whole degrees.  latLngToUTM  *)
(* keeps the zone, the central meridian, the false easting and the false   *)
(* northing of the source; the transverse-Mercator series is replaced by   *)
(* its first-order term at MetresPerDegree metres per degree.              *)
(***************************************************************************)
MetresPerDegree == 10

getUTMZone_FromZero(longitude) == (longitude + 180) \div 6

getUTMZone(longitude) == ((longitude + 180) \div 6) + 1

getHemisphere(latitude) == IF latitude >= 0 THEN "N" ELSE "S"

latLngToUTM(lat, lng) ==
    LET zone == getUTMZone(lng)
        hemisphere == getHemisphere(lat)
        lng0 == (zone - 1) * 6 - 180 + 3
        easting == MetresPerDegree * (lng - lng0) + 500000
        northing == MetresPerDegree * lat
    IN  [easting |-> easting,
         northing |-> IF hemisphere = "S" THEN northing + 10000000 ELSE northing,
         zone |-> zone,
         hemisphere |-> hemisphere]

utmToPixel_TopDown(utm, tileOriginX, tileOriginY, pixelSize) ==
    [x |-> (utm.easting - tileOriginX) \div pixelSize,
     y |-> (tileOriginY - utm.northing) \div pixelSize]

utmToPixel(utm, tileOriginX, tileOriginY, pixelSize) ==
    [x |-> (utm.easting - tileOriginX) \div pixelSize,
     y |-> (utm.northing - tileOriginY) \div pixelSize]

latLngToPixel(lat, lng, tileOriginX, tileOriginY, pixelSize) ==
    utmToPixel(latLngToUTM(lat, lng), tileOriginX, tileOriginY, pixelSize)

bboxToPixelWindow_Exclusive(bbox, tileOriginX, tileOriginY, pixelSize) ==
    LET sw == latLngToPixel(bbox.minLat, bbox.minLng, tileOriginX, tileOriginY, pixelSize)
        ne == latLngToPixel(bbox.maxLat, bbox.maxLng, tileOriginX, tileOriginY, pixelSize)
    IN  <<sw.x, sw.y, ne.x - sw.x, ne.y - sw.y>>

\* <<x, y, width, height>>, (x, y) the south-west corner pixel
bboxToPixelWindow(bbox, tileOriginX, tileOriginY, pixelSize) ==
    LET sw == latLngToPixel(bbox.minLat, bbox.minLng, tileOriginX, tileOriginY, pixelSize)
        ne == latLngToPixel(bbox.maxLat, bbox.maxLng, tileOriginX, tileOriginY, pixelSize)
    IN  <<sw.x, sw.y, ne.x - sw.x + 1, ne.y - sw.y + 1>>

getTileOrigin(tile) == [x |-> tile.utmBounds.minX, y |-> tile.utmBounds.minY]

(***************************************************************************)
(* polygonMask.  A pixel centre is (X / 2w, Y / 2h); the ray-casting test  *)
(* is the source's, cleared of its denominators.                           *)
(***************************************************************************)
\* one edge (i, j) of the loop: does the ray from (X/sx, Y/sy) cross it
EdgeCrossed(X, Y, sx, sy, pi, pj) ==
    LET xi == pi[1]
        yi == pi[2]
        xj == pj[1]
        yj == pj[2]
        lhs == (X - xi * sx) * sy * (yj - yi)
        rhs == (xj - xi) * (Y - yi * sy) * sx
    IN  /\ (yi * sy > Y) # (yj * sy > Y)
        /\ IF yj - yi > 0 THEN lhs < rhs ELSE lhs > rhs

\* inside = the number of crossed edges is odd
pointInPolygon(X, Y, sx, sy, polygon) ==
    LET n == Len(polygon)
        crossed == {i \in 1..n :
                      EdgeCrossed(X, Y, sx, sy, polygon[i],
                                  polygon[IF i = 1 THEN n ELSE i - 1])}
    IN  Cardinality(crossed) % 2 = 1

createPolygonMask(bounds, width, height) ==
    IF bounds.polygon = NULL THEN NULL
    ELSE [m |-> [j \in 1..(width * height) |->
                    LET y == (j - 1) \div width
                        x == (j - 1) % width
                        Y == 2 * height * bounds.maxLat
                               - (2 * y + 1) * (bounds.maxLat - bounds.minLat)
                        X == 2 * width * bounds.minLng
                               + (2 * x + 1) * (bounds.maxLng - bounds.minLng)
                    IN  pointInPolygon(X, Y, 2 * width, 2 * height, bounds.polygon.ring)]]

(***************************************************************************)
(* Initial values of the three groups of variables.                        *)
(***************************************************************************)
PipeIdle == [pc |-> "idle"]

\* useWizard
initialState == [step |-> 1, areaMode |-> "click", areaSize |-> 2, error |-> NULL]

wizardReducer_BackResets(state, action) ==
    CASE action.type = "SET_MODE" -> [state EXCEPT !.areaMode = action.mode]
      [] action.type = "SET_SIZE" -> [state EXCEPT !.areaSize = action.size]
      [] action.type = "AREA_SELECTED" -> [state EXCEPT !.step = 2, !.error = NULL]
      [] action.type = "LOADING_STARTED" -> [state EXCEPT !.error = NULL]
      [] action.type = "DATA_LOADED" -> [state EXCEPT !.step = 3, !.error = NULL]
      [] action.type = "REFERENCE_SELECTED" -> [state EXCEPT !.step = 4, !.error = NULL]
      [] action.type = "SET_ERROR" ->
             [state EXCEPT !.error = [message |-> action.error]]
      [] action.type = "CLEAR_ERROR" -> [state EXCEPT !.error = NULL]
      [] action.type = "BACK" ->
             IF state.step > 1
             THEN [state EXCEPT !.step = state.step - 1, !.error = NULL]
             ELSE initialState
      [] action.type = "RESET" -> initialState
      [] OTHER -> state

wizardReducer(state, action) ==
    CASE action.type = "SET_MODE" -> [state EXCEPT !.areaMode = action.mode]
      [] action.type = "SET_SIZE" -> [state EXCEPT !.areaSize = action.size]
      [] action.type = "AREA_SELECTED" -> [state EXCEPT !.step = 2, !.error = NULL]
      [] action.type = "LOADING_STARTED" -> [state EXCEPT !.error = NULL]
      [] action.type = "DATA_LOADED" -> [state EXCEPT !.step = 3, !.error = NULL]
      [] action.type = "REFERENCE_SELECTED" -> [state EXCEPT !.step = 4, !.error = NULL]
      [] action.type = "SET_ERROR" ->
             [state EXCEPT !.error = [message |-> action.error]]
      [] action.type = "CLEAR_ERROR" -> [state EXCEPT !.error = NULL]
      [] action.type = "BACK" ->
             IF state.step > 1
             THEN [state EXCEPT !.step = state.step - 1, !.error = NULL]
             ELSE state
      [] action.type = "RESET" -> initialState
      [] OTHER -> state

AppInit ==
    /\ embeddingData = NULL
    /\ referencePixel = NULL
    /\ similarityResult = NULL
    /\ isCalculating = FALSE
    /\ isWorkerReady = FALSE
    /\ requestIdRef = 0
    /\ pendingResultRef = NULL
    /\ toWorker = <<>>
    /\ toMain = <<>>
    /\ worker = [loaded |-> FALSE, failed |-> FALSE, polygonMask |-> NULL,
                 width |-> 0, height |-> 0]
    /\ mainRefs = {}
    /\ workerRefs = {}
    /\ hist = [loads |-> 0, posted |-> {}, reads |-> {}, lastIssued |-> 0,
                reqPixel |-> <<>>, reqGrid |-> <<>>, scoredOn |-> <<>>,
                appliedReq |-> 0, dropped |-> FALSE, errors |-> 0,
                rawData |-> <<>>]
    /\ wizard = initialState

IndexInit ==
    /\ cachedTiles = NULL
    /\ calls = <<>>
    /\ loader = [currentTile |-> NULL, isLoading |-> FALSE, error |-> NULL,
                 loadingProgress |-> NULL]
    /\ decoderRegistered = FALSE
    /\ idx = [source |-> <<>>, loads |-> 0, writes |-> 0, clears |-> 0,
              decoders |-> 0, cacheFrom |-> 0]

(***************************************************************************)
(* SpecNum: the pure pipeline on bounded raw blocks.                       *)
(***************************************************************************)
\* transport bytes of the model: 0, a positive value, the mask value -128
\* (128 unsigned) and -1 (255 unsigned)
RawBytes == {0, 2, 128, 255}

\* the band patterns of one pixel: first band c1, the other bands c2
PixelPatterns ==
    {[b \in 1..Bands |-> IF b = 1 THEN c1 ELSE c2] : c1 \in RawBytes, c2 \in RawBytes}

Shapes == {s \in (1..MaxPixels) \X (1..MaxPixels) : s[1] * s[2] <= MaxPixels}

\* the band-interleaved block of a sequence of pixel patterns
Interleave(pats) ==
    [j \in 1..(Len(pats) * Bands) |-> pats[((j - 1) \div Bands) + 1][((j - 1) % Bands) + 1]]

PolygonMasks(numPixels) ==
    {NULL} \cup {[m |-> f] : f \in [1..numPixels -> {0, 1}]}

NumInit ==
    /\ \E s \in Shapes : \E pats \in [1..(s[1] * s[2]) -> PixelPatterns] :
          pipe = [pc |-> "raw", width |-> s[1], height |-> s[2],
                  bytes |-> Interleave(pats)]
    /\ AppInit
    /\ IndexInit

\* loadEmbeddings, after the raster read: signed view, flip, dequantize
PipeDecode ==
    /\ pipe.pc = "raw"
    /\ LET rawData == Int8View(pipe.bytes)
           flippedData == flipVertical(rawData, pipe.width, pipe.height, Bands)
           dq == dequantize(flippedData, pipe.width, pipe.height)
       IN  pipe' = [pc |-> "grid", width |-> pipe.width, height |-> pipe.height,
                    bytes |-> pipe.bytes, flippedData |-> flippedData,
                    embeddings |-> dq.embeddings, mask |-> dq.mask]
    /\ UNCHANGED <<appVars, indexVars>>

\* the worker's 'init' branch on the decoded grid
PipeInitWorker ==
    /\ pipe.pc = "grid"
    /\ \E pm \in PolygonMasks(pipe.width * pipe.height) :
          pipe' = [pc |-> "init", width |-> pipe.width, height |-> pipe.height,
                   bytes |-> pipe.bytes, flippedData |-> pipe.flippedData,
                   embeddings |-> pipe.embeddings, mask |-> pipe.mask,
                   w |-> [embeddings |-> pipe.embeddings,
                          mask |-> ToUint8Mask(pipe.mask),
                          polygonMask |-> pm,
                          width |-> pipe.width, height |-> pipe.height]]
    /\ UNCHANGED <<appVars, indexVars>>

\* the worker's 'calculate' branch; the reference is a valid pixel's vector,
\* as selectReferencePixel extracts it
PipeCalculate ==
    /\ pipe.pc = "init"
    /\ \E x \in 0..(pipe.width - 1), y \in 0..(pipe.height - 1) :
          /\ At(pipe.mask, y * pipe.width + x)
          /\ LET refVector == extractEmbeddingVector(pipe.embeddings, x, y, pipe.width)
             IN  pipe' = [pc |-> "scored", width |-> pipe.width, height |-> pipe.height,
                          bytes |-> pipe.bytes, flippedData |-> pipe.flippedData,
                          embeddings |-> pipe.embeddings, mask |-> pipe.mask,
                          w |-> pipe.w, refX |-> x, refY |-> y,
                          refVector |-> refVector,
                          scores |-> calculateSimilarityScores(pipe.w, refVector)]
    /\ UNCHANGED <<appVars, indexVars>>

\* score < 0 on a value of the model
IsNegative(v) == v.n < 0

\* scoresToRGBA: the pixels that take the "masked" branch and get alpha 0
\* whatever the threshold and the opacity are
MaskedBranch(scores) == [i \in 1..Len(scores) |-> IsNegative(scores[i])]

\* similarityStats: the indices kept by filter(s => s >= 0)
validScores(scores) == {i \in 1..Len(scores) : ~IsNegative(scores[i])}

\* HoverTooltip: the tooltip of a hovered pixel is hidden
HoverTooltipHidden(scores) == [i \in 1..Len(scores) |-> IsNegative(scores[i])]

\* the consumers of the similarity result: overlay, statistics, tooltip
PipeShow ==
    /\ pipe.pc = "scored"
    /\ pipe' = [pc |-> "shown", width |-> pipe.width, height |-> pipe.height,
                bytes |-> pipe.bytes, flippedData |-> pipe.flippedData,
                embeddings |-> pipe.embeddings, mask |-> pipe.mask,
                w |-> pipe.w, refX |-> pipe.refX, refY |-> pipe.refY,
                refVector |-> pipe.refVector, scores |-> pipe.scores,
                transparent |-> MaskedBranch(pipe.scores),
                total |-> Cardinality(validScores(pipe.scores)),
                hidden |-> HoverTooltipHidden(pipe.scores)]
    /\ UNCHANGED <<appVars, indexVars>>

NumNext == PipeDecode \/ PipeInitWorker \/ PipeCalculate \/ PipeShow

SpecNum == NumInit /\ [][NumNext]_vars

(***************************************************************************)
(* Spec: useSimilarity, the two message channels and the worker.           *)
(*                                                                         *)
(* Buffers.  The embeddings buffer of the k-th load is <<"grid", k>>; a    *)
(* structured clone of buffer b is <<"clone", b>>; the worker's scores     *)
(* buffer of request r is <<"scores", r>>.  postMessage clones every       *)
(* buffer that is not in its transfer list and detaches, in the sender,    *)
(* every buffer that is.  mainRefs and workerRefs are the buffers a thread *)
(* has allocated or received and that no transfer has detached in it.      *)
(***************************************************************************)
MaxLoads == 2

MaxRequests == 2

\* the buffer the receiver gets for buffer b of a posted message
Received(b, transfer) == IF b \in transfer THEN b ELSE <<"clone", b>>

\* the buffers the sender can still use after posting
Kept(refs, transfer) == refs \ transfer

\* the transfer list of initWorker's postMessage (none is given)
InitTransfer(embeddingsBuf) == {}

ResultTransfer_None(scoresBuf) == {}

\* the transfer list of the worker's 'result' postMessage: [scores.buffer]
ResultTransfer(scoresBuf) == {scoresBuf}

\* the tile of the app model: zone 30N, longitudes -5..-1, latitudes 0..4
TheTile ==
    LET sw == latLngToUTM(0, -5)
        ne == latLngToUTM(4, -1)
    IN  [url |-> "tileA", year |-> "2024", utmZone |-> "30N",
         utmBounds |-> [minX |-> sw.easting, minY |-> sw.northing,
                        maxX |-> ne.easting, maxY |-> ne.northing],
         lngLatBounds |-> [minLng |-> -5, minLat |-> 0, maxLng |-> -1, maxLat |-> 4]]

\* a drawn triangle whose envelope is the box
TriangleOf(minLng, minLat, maxLng, maxLat) ==
    [ring |-> << <<minLng, minLat>>, <<maxLng, minLat>>, <<minLng, maxLat>>,
                 <<minLng, minLat>> >>]

\* the selected areas of the app model: a one-pixel square, a 2 x 2 square
\* and a drawn triangle with the same envelope
AppBoxes ==
    { [minLng |-> -4, minLat |-> 1, maxLng |-> -4, maxLat |-> 1, polygon |-> NULL],
      [minLng |-> -4, minLat |-> 1, maxLng |-> -3, maxLat |-> 2, polygon |-> NULL],
      [minLng |-> -4, minLat |-> 1, maxLng |-> -3, maxLat |-> 2,
       polygon |-> TriangleOf(-4, 1, -3, 2)] }

\* raw pixels of the app model: two opposite unit vectors, a masked pixel
AppPatterns ==
    << [b \in 1..Bands |-> IF b = 1 THEN 2 ELSE 0],
       [b \in 1..Bands |-> IF b = 1 THEN 255 ELSE 0],
       [b \in 1..Bands |-> 128] >>

\* the raster block read for a window of n pixels, one per seed
AppBlock(seed, n) ==
    Interleave([i \in 1..n |-> AppPatterns[((i + seed) % Len(AppPatterns)) + 1]])

ClickLngs == {-5, -4, -3}

ClickLats == {0, 1, 2}

\* loadEmbeddings from the raster read on: signed view, flip, dequantize
DecodeWindow(bbox, windowWidth, windowHeight, bytes) ==
    LET rawData == Int8View(bytes)
        flippedData == flipVertical(rawData, windowWidth, windowHeight, Bands)
        dq == dequantize(flippedData, windowWidth, windowHeight)
    IN  [embeddings |-> dq.embeddings, width |-> windowWidth,
         height |-> windowHeight, bounds |-> bbox, mask |-> dq.mask]

\* initWorker(embeddingData): the message it posts
InitMessage(data) ==
    LET polygonMask == createPolygonMask(data.bounds, data.width, data.height)
    IN  [type |-> "init",
         embeddings |-> data.embeddings,
         buf |-> Received(data.buf, InitTransfer(data.buf)),
         mask |-> ToUint8Mask(data.mask),
         polygonMask |-> IF polygonMask = NULL THEN NULL
                         ELSE [m |-> ToUint8Mask(polygonMask.m)],
         width |-> data.width,
         height |-> data.height]

\* handleLoadEmbeddings with a successful loadEmbeddings (setCurrentTile,
\* setEmbeddingData), followed by the effect that calls
\* initWorker(embeddingData); the panel offers the load at step 2, which is
\* reached from steps 1 and 3 without touching the similarity state
AppLoadEmbeddings ==
    /\ hist.loads < MaxLoads
    /\ wizard.step < 4
    /\ \E bbox \in AppBoxes, seed \in 0..(Len(AppPatterns) - 1) :
          LET origin == getTileOrigin(TheTile)
              win == bboxToPixelWindow(bbox, origin.x, origin.y, PIXEL_SIZE)
              buf == <<"grid", hist.loads + 1>>
              data == [DecodeWindow(bbox, win[3], win[4], AppBlock(seed, win[3] * win[4]))
                         EXCEPT !.bounds = bbox] @@ [buf |-> buf]
          IN  /\ win[3] > 0 /\ win[4] > 0
              /\ embeddingData' = data
              /\ loader' = [loader EXCEPT !.currentTile = TheTile]
              /\ isWorkerReady' = FALSE
              /\ toWorker' = Append(toWorker, InitMessage(data))
              /\ mainRefs' = Kept(mainRefs \cup {buf}, InitTransfer(buf))
              /\ hist' = [hist EXCEPT !.loads = @ + 1, !.posted = @ \cup {buf},
                                      !.rawData = Int8View(AppBlock(seed, win[3] * win[4]))]
    /\ wizard' = wizardReducer(wizardReducer(wizard, [type |-> "LOADING_STARTED"]),
                               [type |-> "DATA_LOADED"])
    /\ UNCHANGED <<pipe, referencePixel, similarityResult, isCalculating,
                   requestIdRef, pendingResultRef, toMain, worker, workerRefs,
                   cachedTiles, calls, decoderRegistered, idx>>

ClickTarget_NoMaskCheck(lng, lat, data, tile) ==
    LET origin == getTileOrigin(tile)
        pixelCoord == latLngToPixel(lat, lng, origin.x, origin.y, PIXEL_SIZE)
        windowSW == latLngToPixel(data.bounds.minLat, data.bounds.minLng,
                                  origin.x, origin.y, PIXEL_SIZE)
        localX == pixelCoord.x - windowSW.x
        nativeLocalY == pixelCoord.y - windowSW.y
        localY == (data.height - 1) - nativeLocalY
    IN  IF localX < 0 \/ localX >= data.width \/ localY < 0 \/ localY >= data.height
        THEN [success |-> FALSE, error |-> "outside"]
        ELSE [success |-> TRUE, localX |-> localX, localY |-> localY]

\* selectReferencePixel: the local pixel of a click, or the failure
ClickTarget(lng, lat, data, tile) ==
    LET origin == getTileOrigin(tile)
        pixelCoord == latLngToPixel(lat, lng, origin.x, origin.y, PIXEL_SIZE)
        windowSW == latLngToPixel(data.bounds.minLat, data.bounds.minLng,
                                  origin.x, origin.y, PIXEL_SIZE)
        localX == pixelCoord.x - windowSW.x
        nativeLocalY == pixelCoord.y - windowSW.y
        localY == (data.height - 1) - nativeLocalY
    IN  IF localX < 0 \/ localX >= data.width \/ localY < 0 \/ localY >= data.height
        THEN [success |-> FALSE, error |-> "outside"]
        ELSE IF ~At(data.mask, localY * data.width + localX)
        THEN [success |-> FALSE, error |-> "masked"]
        ELSE [success |-> TRUE, localX |-> localX, localY |-> localY]

\* the value selectReferencePixel returns for a click
SelectOutcome(lng, lat, data, tile) ==
    IF ~isWorkerReady
    THEN [success |-> FALSE, error |-> "Worker not ready"]
    ELSE ClickTarget(lng, lat, data, tile)

\* handleMapClick at step 3 of the wizard: selectReferencePixel(lng, lat,
\* embeddingData, currentTile), then the dispatch on the value it returns
SelectReferencePixel ==
    /\ embeddingData # NULL
    /\ loader.currentTile # NULL
    /\ wizard.step = 3
    /\ \E lng \in ClickLngs, lat \in ClickLats :
          LET t == SelectOutcome(lng, lat, embeddingData, loader.currentTile)
          IN  /\ IF ~t.success
                 THEN UNCHANGED <<referencePixel, pendingResultRef, isCalculating,
                                  requestIdRef, toWorker, hist>>
                 ELSE /\ requestIdRef < MaxRequests
                      /\ LET vector == extractEmbeddingVector(
                                  embeddingData.embeddings, t.localX, t.localY,
                                  embeddingData.width)
                         IN  /\ referencePixel' = [lng |-> lng, lat |-> lat,
                                                   pixelX |-> t.localX,
                                                   pixelY |-> t.localY,
                                                   vector |-> vector]
                             /\ pendingResultRef' = [bounds |-> embeddingData.bounds,
                                                     width |-> embeddingData.width,
                                                     height |-> embeddingData.height]
                             /\ isCalculating' = TRUE
                             /\ requestIdRef' = requestIdRef + 1
                             /\ toWorker' = Append(toWorker,
                                    [type |-> "calculate", refVector |-> vector,
                                     requestId |-> requestIdRef + 1])
                             /\ hist' = [hist EXCEPT
                                    !.lastIssued = requestIdRef + 1,
                                    !.reqPixel = Append(@,
                                        t.localY * embeddingData.width + t.localX),
                                    !.reqGrid = Append(@, embeddingData.buf),
                                    !.reads = @ \cup {embeddingData.buf}]
              /\ wizard' = IF t.success
                           THEN wizardReducer(wizard, [type |-> "REFERENCE_SELECTED"])
                           ELSE wizardReducer(wizard, [type |-> "SET_ERROR",
                                                       error |-> t.error])
    /\ UNCHANGED <<pipe, embeddingData, similarityResult, isWorkerReady, toMain,
                   worker, mainRefs, workerRefs, indexVars>>

\* handleBack at step 4 of the wizard: clearReference, then BACK
ClearReference ==
    /\ wizard.step = 4
    /\ referencePixel' = NULL
    /\ similarityResult' = NULL
    /\ wizard' = wizardReducer(wizard, [type |-> "BACK"])
    /\ UNCHANGED <<pipe, embeddingData, isCalculating, isWorkerReady, requestIdRef,
                   pendingResultRef, toWorker, toMain, worker, mainRefs, workerRefs,
                   hist, indexVars>>

StoreGrid_KeepSize(message) ==
    [loaded |-> TRUE, embeddings |-> message.embeddings, mask |-> message.mask,
     polygonMask |-> message.polygonMask, width |-> worker.width,
     height |-> worker.height, buf |-> message.buf, failed |-> FALSE]

\* self.onmessage, 'init' branch: the worker state after the assignments
StoreGrid(message) ==
    [loaded |-> TRUE,
     embeddings |-> message.embeddings,
     mask |-> message.mask,
     polygonMask |-> message.polygonMask,
     width |-> message.width,
     height |-> message.height,
     buf |-> message.buf,
     failed |-> FALSE]

\* the worker's self.onmessage on the oldest posted message;
\* calculateSimilarityScores throws when the worker holds no grid or when the
\* scores array cannot be allocated (thrown)
WorkerOnMessage ==
    /\ toWorker # <<>>
    /\ ~worker.failed
    /\ LET message == Head(toWorker)
       IN  IF message.type = "init"
           THEN /\ worker' = StoreGrid(message)
                /\ workerRefs' = workerRefs \cup {message.buf}
                /\ toMain' = Append(toMain, [type |-> "ready"])
                /\ UNCHANGED hist
           ELSE \E thrown \in (IF worker.loaded THEN BOOLEAN ELSE {TRUE}) :
                  IF thrown
                  THEN /\ toMain' = Append(toMain, [type |-> "error",
                                                    requestId |-> message.requestId])
                       /\ hist' = [hist EXCEPT !.scoredOn = Append(@, <<"none">>)]
                       /\ UNCHANGED <<worker, workerRefs>>
                  ELSE LET scores == calculateSimilarityScores(worker, message.refVector)
                           buf == <<"scores", message.requestId>>
                       IN  /\ toMain' = Append(toMain,
                                  [type |-> "result", scores |-> scores,
                                   buf |-> Received(buf, ResultTransfer(buf)),
                                   requestId |-> message.requestId])
                           /\ workerRefs' = Kept(workerRefs \cup {buf},
                                                 ResultTransfer(buf))
                           /\ hist' = [hist EXCEPT !.scoredOn = Append(@, worker.buf)]
                           /\ UNCHANGED worker
    /\ toWorker' = Tail(toWorker)
    /\ UNCHANGED <<pipe, embeddingData, referencePixel, similarityResult,
                   isCalculating, isWorkerReady, requestIdRef, pendingResultRef,
                   mainRefs, wizard, indexVars>>

\* worker.onerror of useSimilarity: the worker script failed before it
\* handled any message, and handles none afterwards
WorkerOnError ==
    /\ ~worker.loaded
    /\ ~worker.failed
    /\ worker' = [worker EXCEPT !.failed = TRUE]
    /\ isCalculating' = FALSE
    /\ pendingResultRef' = NULL
    /\ hist' = [hist EXCEPT !.errors = @ + 1]
    /\ UNCHANGED <<pipe, embeddingData, referencePixel, similarityResult,
                   isWorkerReady, requestIdRef, toWorker, toMain, mainRefs,
                   workerRefs, wizard, indexVars>>

IsAwaited_AnyId(data) == pendingResultRef # NULL

\* worker.onmessage, 'result' branch: is the reply the one still awaited
IsAwaited(data) ==
    data.requestId = requestIdRef /\ pendingResultRef # NULL

\* worker.onmessage of useSimilarity on the oldest reply
MainOnMessage ==
    /\ toMain # <<>>
    /\ LET data == Head(toMain)
       IN  CASE data.type = "ready" ->
                  /\ isWorkerReady' = TRUE
                  /\ UNCHANGED <<similarityResult, isCalculating, pendingResultRef,
                                 mainRefs, hist>>
             [] data.type = "result" ->
                  IF IsAwaited(data)
                  THEN /\ similarityResult' = [scores |-> data.scores,
                                               width |-> pendingResultRef.width,
                                               height |-> pendingResultRef.height,
                                               bounds |-> pendingResultRef.bounds,
                                               buf |-> data.buf]
                       /\ isCalculating' = FALSE
                       /\ pendingResultRef' = NULL
                       /\ mainRefs' = mainRefs \cup {data.buf}
                       /\ hist' = [hist EXCEPT !.appliedReq = data.requestId]
                       /\ UNCHANGED isWorkerReady
                  ELSE /\ hist' = [hist EXCEPT !.dropped = TRUE]
                       /\ UNCHANGED <<similarityResult, isCalculating,
                                      pendingResultRef, mainRefs, isWorkerReady>>
             [] data.type = "error" ->
                  /\ isCalculating' = FALSE
                  /\ pendingResultRef' = NULL
                  /\ hist' = [hist EXCEPT !.errors = @ + 1]
                  /\ UNCHANGED <<similarityResult, mainRefs, isWorkerReady>>
    /\ toMain' = Tail(toMain)
    /\ UNCHANGED <<pipe, embeddingData, referencePixel, requestIdRef, toWorker,
                   worker, workerRefs, wizard, indexVars>>

Init ==
    /\ pipe = PipeIdle
    /\ AppInit
    /\ IndexInit

Next ==
    \/ AppLoadEmbeddings
    \/ SelectReferencePixel
    \/ ClearReference
    \/ WorkerOnMessage
    \/ WorkerOnError
    \/ MainOnMessage

Spec == Init /\ [][Next]_vars

\* the worker handles every message it receives and every reply is delivered
SpecLive ==
    Init /\ [][Next]_vars /\ WF_vars(WorkerOnMessage) /\ WF_vars(MainOnMessage)

(***************************************************************************)
(* SpecGeo: the coordinate functions on bounded arguments.  pipe holds the *)
(* arguments of one call, then the arguments with the value returned.      *)
(***************************************************************************)
\* a shift of at most MaxShift pixel sizes
MaxShift == 3

\* a hovered heatmap is at most MaxGrid pixels wide and high
MaxGrid == 3

\* every whole longitude of [-180, 180)
GeoLongitudes == (-180)..179

\* offsets in metres of a point from the tile origin, on both sides of it
\* and on and off the pixel grid
GeoOffsets == {-11, -10, -1, 0, 5, 10, 19}

GeoOrigins == {[x |-> 0, y |-> 0], [x |-> 499980, y |-> 20]}

GeoPixelSizes == {PIXEL_SIZE, 3}

\* box corners on both sides of the border of zones 29 and 30 (longitude -6)
\* and of the equator
GeoLngs == (-8)..(-4)

GeoLats == (-1)..2

GeoInit ==
    /\ \/ \E longitude \in GeoLongitudes :
             pipe = [pc |-> "zoneArgs", longitude |-> longitude]
       \/ \E dE \in GeoOffsets, dN \in GeoOffsets, origin \in GeoOrigins,
             pixelSize \in GeoPixelSizes, k \in 0..MaxShift :
             pipe = [pc |-> "pixelArgs",
                     utm |-> [easting |-> origin.x + dE, northing |-> origin.y + dN],
                     tileOriginX |-> origin.x, tileOriginY |-> origin.y,
                     pixelSize |-> pixelSize, k |-> k]
       \/ \E minLng \in GeoLngs, maxLng \in GeoLngs, minLat \in GeoLats,
             maxLat \in GeoLats :
             /\ minLng <= maxLng
             /\ minLat <= maxLat
             /\ pipe = [pc |-> "windowArgs",
                        bbox |-> [minLng |-> minLng, minLat |-> minLat,
                                  maxLng |-> maxLng, maxLat |-> maxLat]]
       \/ \E width \in 1..MaxGrid, height \in 1..MaxGrid, minLat \in {-3, 0},
             rowUnits \in {2, 3} :
             \E dLng \in 0..(2 * width - 1), dLat \in 0..(rowUnits * height - 1) :
                /\ dLng % 2 # 0
                /\ dLat % rowUnits # 0
                /\ pipe = [pc |-> "hoverArgs", width |-> width, height |-> height,
                           bounds |-> [minLng |-> 0, maxLng |-> 2 * width,
                                       minLat |-> minLat,
                                       maxLat |-> minLat + rowUnits * height],
                           lng |-> dLng, lat |-> minLat + dLat]
    /\ AppInit
    /\ IndexInit

CallGetUTMZone ==
    /\ pipe.pc = "zoneArgs"
    /\ pipe' = [pc |-> "zone", longitude |-> pipe.longitude,
                zone |-> getUTMZone(pipe.longitude)]
    /\ UNCHANGED <<appVars, indexVars>>

\* utmToPixel at a point, at the point k pixel sizes east of it and at the
\* point k pixel sizes north of it
CallUtmToPixel ==
    /\ pipe.pc = "pixelArgs"
    /\ LET shift == pipe.k * pipe.pixelSize
           call(utm) == utmToPixel(utm, pipe.tileOriginX, pipe.tileOriginY,
                                   pipe.pixelSize)
       IN  pipe' = [pc |-> "pixel", utm |-> pipe.utm,
                    tileOriginX |-> pipe.tileOriginX,
                    tileOriginY |-> pipe.tileOriginY,
                    pixelSize |-> pipe.pixelSize, k |-> pipe.k,
                    at |-> call(pipe.utm),
                    east |-> call([pipe.utm EXCEPT !.easting = @ + shift]),
                    north |-> call([pipe.utm EXCEPT !.northing = @ + shift])]
    /\ UNCHANGED <<appVars, indexVars>>

\* bboxToPixelWindow on the origin of the tile, with the default pixel size
CallBboxToPixelWindow ==
    /\ pipe.pc = "windowArgs"
    /\ LET origin == getTileOrigin(TheTile)
       IN  pipe' = [pc |-> "window", bbox |-> pipe.bbox,
                    window |-> bboxToPixelWindow(pipe.bbox, origin.x, origin.y,
                                                 PIXEL_SIZE)]
    /\ UNCHANGED <<appVars, indexVars>>

\* the onHover handler of the heatmap layer: the pixel of the cursor and
\* the index of the score it reports, or "none" outside the grid
onHover(lng, lat, bounds, width, height) ==
    LET x == ((lng - bounds.minLng) * width) \div (bounds.maxLng - bounds.minLng)
        y == ((lat - bounds.minLat) * height) \div (bounds.maxLat - bounds.minLat)
    IN  IF x < 0 \/ x >= width \/ y < 0 \/ y >= height
        THEN [kind |-> "none"]
        ELSE [kind |-> "score", x |-> x, y |-> y, index |-> y * width + x]

\* a cursor position in units of half a pixel width and of 1 / rowUnits of a
\* pixel height, never on the border of two pixels
CallOnHover ==
    /\ pipe.pc = "hoverArgs"
    /\ pipe' = [pc |-> "hover", width |-> pipe.width, height |-> pipe.height,
                bounds |-> pipe.bounds, lng |-> pipe.lng, lat |-> pipe.lat,
                info |-> onHover(pipe.lng, pipe.lat, pipe.bounds, pipe.width,
                                 pipe.height)]
    /\ UNCHANGED <<appVars, indexVars>>

GeoNext == CallGetUTMZone \/ CallUtmToPixel \/ CallBboxToPixelWindow \/ CallOnHover

SpecGeo == GeoInit /\ [][GeoNext]_vars

(***************************************************************************)
(* SpecTiff: downloadGeoTiff.  The file is kept as the byte ranges         *)
(* [from, to) that each part of the function writes and the fields of the  *)
(* directory entries; sample values are not modelled.                      *)
(***************************************************************************)
\* a raster of the exported file is at most MaxDim pixels wide and high
MaxDim == 4

headerSize == 8

numTags == 14

ifdSize == 2 + numTags * 12 + 4

extDataOffset == headerSize + ifdSize

pixelScaleSize == 24

tiepointSize == 48

geoKeysSize == 32

extDataSize == pixelScaleSize + tiepointSize + geoKeysSize

unalignedOffset == extDataOffset + extDataSize

CeilTo4_None(n) == n

\* Math.ceil(n / 4) * 4
CeilTo4(n) == ((n + 3) \div 4) * 4

imageDataOffset == CeilTo4(unalignedOffset)

\* typeSizes[type] || 4
TypeSize(type) ==
    CASE type = 1 -> 1
      [] type = 2 -> 1
      [] type = 3 -> 2
      [] type = 4 -> 4
      [] type = 5 -> 8
      [] type = 12 -> 8
      [] OTHER -> 4

\* the writeTag calls in the order of the source: tag, type, count and, for
\* a value that is a single number, the number
TagCalls(width, height) ==
    << [tag |-> 256, type |-> 4, count |-> 1, value |-> width],
       [tag |-> 257, type |-> 4, count |-> 1, value |-> height],
       [tag |-> 258, type |-> 3, count |-> 1, value |-> 32],
       [tag |-> 259, type |-> 3, count |-> 1, value |-> 1],
       [tag |-> 262, type |-> 3, count |-> 1, value |-> 1],
       [tag |-> 273, type |-> 4, count |-> 1, value |-> imageDataOffset],
       [tag |-> 277, type |-> 3, count |-> 1, value |-> 1],
       [tag |-> 278, type |-> 4, count |-> 1, value |-> height],
       [tag |-> 279, type |-> 4, count |-> 1, value |-> width * height * 4],
       [tag |-> 284, type |-> 3, count |-> 1, value |-> 1],
       [tag |-> 339, type |-> 3, count |-> 1, value |-> 3],
       [tag |-> 33550, type |-> 12, count |-> 3, value |-> 0],
       [tag |-> 33922, type |-> 12, count |-> 6, value |-> 0],
       [tag |-> 34735, type |-> 3, count |-> 16, value |-> 0] >>

TiffInit ==
    /\ \E width \in 1..MaxDim, height \in 1..MaxDim :
          pipe = [pc |-> "tiffArgs", width |-> width, height |-> height]
    /\ AppInit
    /\ IndexInit

\* the buffer of totalSize bytes, the header and the entry count
TiffHeader ==
    /\ pipe.pc = "tiffArgs"
    /\ pipe' = [pc |-> "directory", width |-> pipe.width, height |-> pipe.height,
                totalSize |-> imageDataOffset + pipe.width * pipe.height * 4,
                header |-> [from |-> 0, to |-> 8, firstIFD |-> headerSize],
                countAt |-> [from |-> headerSize, to |-> headerSize + 2],
                count |-> numTags,
                ifdOffset |-> headerSize + 2,
                extOffset |-> extDataOffset,
                entries |-> <<>>, ext |-> <<>>,
                nextIFDAt |-> NULL, image |-> NULL]
    /\ UNCHANGED <<appVars, indexVars>>

\* one call of writeTag: the 12 bytes of the entry at ifdOffset; the value in
\* the entry when it fits in 4 bytes, else at extOffset with its offset in
\* the entry
writeTag(p, call) ==
    LET valueSize == call.count * TypeSize(call.type)
        inline == valueSize <= 4
        entry == [tag |-> call.tag, type |-> call.type, count |-> call.count,
                  from |-> p.ifdOffset, to |-> p.ifdOffset + 12,
                  inline |-> inline,
                  field |-> IF inline THEN call.value ELSE p.extOffset]
    IN  [p EXCEPT !.entries = Append(@, entry),
                  !.ext = IF inline THEN @
                          ELSE Append(@, [tag |-> call.tag, from |-> p.extOffset,
                                          to |-> p.extOffset + valueSize]),
                  !.extOffset = IF inline THEN @ ELSE @ + valueSize,
                  !.ifdOffset = @ + 12]

WriteNextTag ==
    /\ pipe.pc = "directory"
    /\ Len(pipe.entries) < Len(TagCalls(pipe.width, pipe.height))
    /\ pipe' = writeTag(pipe, TagCalls(pipe.width, pipe.height)[Len(pipe.entries) + 1])
    /\ UNCHANGED <<appVars, indexVars>>

\* the next-IFD offset after the last entry, then the image data
TiffImageData ==
    /\ pipe.pc = "directory"
    /\ Len(pipe.entries) = Len(TagCalls(pipe.width, pipe.height))
    /\ pipe' = [pipe EXCEPT
                  !.pc = "written",
                  !.nextIFDAt = [from |-> pipe.ifdOffset, to |-> pipe.ifdOffset + 4],
                  !.image = [from |-> imageDataOffset,
                             to |-> imageDataOffset + pipe.width * pipe.height * 4]]
    /\ UNCHANGED <<appVars, indexVars>>

TiffNext == TiffHeader \/ WriteNextTag \/ TiffImageData

SpecTiff == TiffInit /\ [][TiffNext]_vars

(***************************************************************************)
(* SpecIndex: the tile catalog cache (cogIndex) and useCOGLoader.  Every   *)
(* await of loadEmbeddings is a point where other calls may run, so a call *)
(* is a record with a position pc; calls is the list of the calls made.    *)
(* idx.source is the catalog file; idx.loads counts the load() requests    *)
(* started, idx.writes the assignments to cachedTiles and idx.clears the   *)
(* clearTileCache calls.                                                   *)
(***************************************************************************)
MaxCalls == 2

MaxClears == 1

TARGET_YEAR == "2024"

\* a catalog row over longitudes -5..-1 (zone 30) and the given latitudes
CatalogRow(url, year, minLat, maxLat) ==
    LET sw == latLngToUTM(minLat, -5)
        ne == latLngToUTM(maxLat, -1)
    IN  [url |-> url, year |-> year, utmZone |-> "30N",
         utmBounds |-> [minX |-> sw.easting, minY |-> sw.northing,
                        maxX |-> ne.easting, maxY |-> ne.northing],
         lngLatBounds |-> [minLng |-> -5, minLat |-> minLat,
                           maxLng |-> -1, maxLat |-> maxLat]]

TileB == CatalogRow("tileB", "2024", 2, 6)

\* history kept with the catalog: idx.clears counts the clearTileCache calls,
\* a call's startedAt is that count when its query starts, its tilesFrom the
\* count when the load started whose rows it got, idx.cacheFrom the same for
\* the rows in cachedTiles
\* a tile of zone 30 at the western edge of the zone: its wgs84 bounds reach
\* west of longitude -6 into zone 29; its utm bounds are zone-30 eastings
TileC ==
    [url |-> "tileC", year |-> "2024", utmZone |-> "30N",
     utmBounds |-> [minX |-> 500000 + MetresPerDegree * (-8 + 3),
                    minY |-> 0,
                    maxX |-> 500000 + MetresPerDegree * (-4 + 3),
                    maxY |-> MetresPerDegree * 4],
     lngLatBounds |-> [minLng |-> -8, minLat |-> 0, maxLng |-> -4, maxLat |-> 4]]

\* parseUTMZone(zoneStr).zone on the zone strings of the model
ZoneNumberOf(zoneStr) ==
    CASE zoneStr = "29N" -> 29
      [] zoneStr = "30N" -> 30
      [] zoneStr = "31N" -> 31

\* the catalog files of the model: empty, two overlapping tiles in both
\* orders, a row of another year before a tile, and a zone-edge tile
Catalogs ==
    { <<>>,
      <<TileC>>,
      <<TheTile, TileB>>,
      <<TileB, TheTile>>,
      <<CatalogRow("tileA", "2023", 0, 4), TileB>> }

BoxOf(minLng, minLat, maxLng, maxLat) ==
    [minLng |-> minLng, minLat |-> minLat, maxLng |-> maxLng, maxLat |-> maxLat,
     polygon |-> NULL]

\* the selected boxes of the model (minLng + maxLng and minLat + maxLat are
\* even, so the centre is an integer): inside tileA with its centre on the
\* edge of tileB; centre on the west edge of tileA and reaching beyond it;
\* inside tileB only; crossing zones 29/31 with its centre in tileA;
\* crossing zones 29/30 with its centre in no tile; in no tile; across the
\* equator with its centre on the south edge of tileA; inside zone 29 and
\* inside the wgs84 bounds of tileC
IndexBoxes ==
    { BoxOf(-4, 0, -2, 4),
      BoxOf(-8, 0, -8, 2),
      BoxOf(-4, -2, -2, 2),
      BoxOf(-6, 0, -4, 2),
      BoxOf(-4, 4, -2, 6),
      BoxOf(-8, 0, 0, 2),
      BoxOf(-8, 0, -6, 2),
      BoxOf(-4, 8, -2, 10) }

\* fetchCOGIndex after load() resolved: the rows of the target year
ParseRows(rows) == SelectSeq(rows, LAMBDA row : row.year = TARGET_YEAR)

bboxContainedInTile(bbox, tile) ==
    /\ bbox.minLng >= tile.lngLatBounds.minLng
    /\ bbox.maxLng <= tile.lngLatBounds.maxLng
    /\ bbox.minLat >= tile.lngLatBounds.minLat
    /\ bbox.maxLat <= tile.lngLatBounds.maxLat

pointInTile_Exclusive(lng, lat, tile) ==
    /\ lng > tile.lngLatBounds.minLng
    /\ lng < tile.lngLatBounds.maxLng
    /\ lat > tile.lngLatBounds.minLat
    /\ lat < tile.lngLatBounds.maxLat

pointInTile(lng, lat, tile) ==
    /\ lng >= tile.lngLatBounds.minLng
    /\ lng <= tile.lngLatBounds.maxLng
    /\ lat >= tile.lngLatBounds.minLat
    /\ lat <= tile.lngLatBounds.maxLat

\* the for loop of findTileForBoundingBox from tile i on
RECURSIVE ScanTiles(_, _, _)
ScanTiles(tiles, bbox, i) ==
    IF i > Len(tiles) THEN [kind |-> "null"]
    ELSE IF pointInTile((bbox.minLng + bbox.maxLng) \div 2,
                        (bbox.minLat + bbox.maxLat) \div 2, tiles[i])
         THEN [kind |-> "found", tile |-> tiles[i],
               fullyContained |-> bboxContainedInTile(bbox, tiles[i])]
         ELSE ScanTiles(tiles, bbox, i + 1)

FindInCatalog_NoZoneCheck(tiles, bbox) == ScanTiles(tiles, bbox, 1)

\* findTileForBoundingBox once fetchCOGIndex has returned tiles
FindInCatalog(tiles, bbox) ==
    IF getUTMZone(bbox.minLng) # getUTMZone(bbox.maxLng)
    THEN [kind |-> "zoneError"]
    ELSE ScanTiles(tiles, bbox, 1)

AfterFind_NoWindowCheck(found, bbox) ==
    IF found.kind = "zoneError" THEN [pc |-> "failed", error |-> "UTM zone"]
    ELSE IF found.kind = "null" THEN [pc |-> "failed", error |-> "No satellite data"]
    ELSE LET origin == getTileOrigin(found.tile)
             win == bboxToPixelWindow(bbox, origin.x, origin.y, PIXEL_SIZE)
         IN  [pc |-> "opening", tile |-> found.tile, window |-> win]

AfterFind_RejectPartial(found, bbox) ==
    IF found.kind = "zoneError" THEN [pc |-> "failed", error |-> "UTM zone"]
    ELSE IF found.kind = "null" THEN [pc |-> "failed", error |-> "No satellite data"]
    ELSE IF ~found.fullyContained THEN [pc |-> "failed", error |-> "not contained"]
    ELSE LET origin == getTileOrigin(found.tile)
             win == bboxToPixelWindow(bbox, origin.x, origin.y, PIXEL_SIZE)
         IN  IF win[3] <= 0 \/ win[4] <= 0
             THEN [pc |-> "failed", error |-> "too small", tile |-> found.tile]
             ELSE [pc |-> "opening", tile |-> found.tile, window |-> win]

\* loadEmbeddings from the result of findTileForBoundingBox up to the await
\* of fromUrl: the position it reaches, with the error or the window
AfterFind(found, bbox) ==
    IF found.kind = "zoneError" THEN [pc |-> "failed", error |-> "UTM zone"]
    ELSE IF found.kind = "null" THEN [pc |-> "failed", error |-> "No satellite data"]
    ELSE LET origin == getTileOrigin(found.tile)
             win == bboxToPixelWindow(bbox, origin.x, origin.y, PIXEL_SIZE)
         IN  IF win[3] <= 0 \/ win[4] <= 0
             THEN [pc |-> "failed", error |-> "too small", tile |-> found.tile]
             ELSE [pc |-> "opening", tile |-> found.tile, window |-> win]

ZSTD_MAGIC == <<40, 181, 47, 253>>

\* the tile payloads handed to the decoder: a ZSTD frame, a payload that is
\* shorter than the magic and raw pixels that share its first three bytes
Payloads ==
    { <<40, 181, 47, 253, 7>>,
      <<40, 181>>,
      <<40, 181, 47, 0, 7>> }

isZstdCompressed_FirstByte(buffer) == Len(buffer) >= 1 /\ At(buffer, 0) = At(ZSTD_MAGIC, 0)

\* ZSTD_MAGIC.every((byte, i) => view[i] === byte); view[i] is undefined
\* beyond the end of the buffer
isZstdCompressed(buffer) ==
    \A i \in 0..(Len(ZSTD_MAGIC) - 1) :
        i < Len(buffer) /\ At(buffer, i) = At(ZSTD_MAGIC, i)

\* ZstdDecoder.decode: the payload, and whether what is returned is
\* zstdDecompress of it (else the buffer itself)
ZstdDecode(buffer) == [payload |-> buffer, decompressed |-> isZstdCompressed(buffer)]

AddDecoderCalls_Always == IF decoderRegistered THEN 1 ELSE 1

\* ensureDecoderRegistered: the number of addDecoder calls it makes
AddDecoderCalls == IF decoderRegistered THEN 0 ELSE 1

\* the catch block of loadEmbeddings
LoaderFailed(message) ==
    [loader EXCEPT !.error = [message |-> message], !.isLoading = FALSE,
                   !.loadingProgress = NULL]

NewCall(bbox) ==
    [bbox |-> bbox, pc |-> "fetching", tiles |-> <<>>, found |-> [kind |-> "pending"],
     window |-> <<0, 0, 0, 0>>, readUrl |-> "", error |-> "", decoded |-> NULL,
     lookups |-> 1, opens |-> 0, reads |-> 0,
     startedAt |-> idx.clears, tilesFrom |-> idx.clears]

\* loadEmbeddings(bbox) up to the first await: findTileForBoundingBox calls
\* fetchCOGIndex, which returns the cache or starts load()
LoadEmbeddings ==
    /\ Len(calls) < MaxCalls
    /\ \E bbox \in IndexBoxes :
          /\ loader' = [loader EXCEPT !.isLoading = TRUE, !.error = NULL,
                                      !.loadingProgress = [step |-> 1]]
          /\ decoderRegistered' = TRUE
          /\ IF cachedTiles # NULL
             THEN /\ calls' = Append(calls, [NewCall(bbox) EXCEPT
                                               !.pc = "find", !.tiles = cachedTiles.tiles,
                                               !.tilesFrom = idx.cacheFrom])
                  /\ idx' = [idx EXCEPT !.decoders = @ + AddDecoderCalls]
             ELSE /\ calls' = Append(calls, NewCall(bbox))
                  /\ idx' = [idx EXCEPT !.loads = @ + 1,
                                        !.decoders = @ + AddDecoderCalls]
    /\ UNCHANGED <<pipe, appVars, cachedTiles>>

\* load() resolves: fetchCOGIndex parses the rows and writes cachedTiles
FetchResolve ==
    \E c \in 1..Len(calls) :
        /\ calls[c].pc = "fetching"
        /\ LET tiles == ParseRows(idx.source)
           IN  /\ cachedTiles' = [tiles |-> tiles]
               /\ calls' = [calls EXCEPT ![c].pc = "find", ![c].tiles = tiles]
        /\ idx' = [idx EXCEPT !.writes = @ + 1, !.cacheFrom = calls[c].startedAt]
        /\ UNCHANGED <<pipe, appVars, loader, decoderRegistered>>

\* load() rejects: findTileForBoundingBox rejects with the load error, which
\* loadEmbeddings replaces by 'Failed to load tile index'
FetchReject ==
    \E c \in 1..Len(calls) :
        /\ calls[c].pc = "fetching"
        /\ calls' = [calls EXCEPT ![c].pc = "failed",
                                  ![c].found = [kind |-> "loadError"],
                                  ![c].error = "Failed to load tile index"]
        /\ loader' = LoaderFailed("Failed to load tile index")
        /\ UNCHANGED <<pipe, appVars, cachedTiles, decoderRegistered, idx>>

\* findTileForBoundingBox continues with the tiles, loadEmbeddings with its
\* result: setCurrentTile, the pixel window and the await of fromUrl
FindTile ==
    \E c \in 1..Len(calls) :
        /\ calls[c].pc = "find"
        /\ LET found == FindInCatalog(calls[c].tiles, calls[c].bbox)
               after == AfterFind(found, calls[c].bbox)
           IN  IF after.pc = "failed"
               THEN /\ calls' = [calls EXCEPT ![c].pc = "failed", ![c].found = found,
                                              ![c].error = after.error]
                    /\ loader' = [LoaderFailed(after.error) EXCEPT
                                    !.currentTile = IF found.kind = "found"
                                                    THEN found.tile ELSE @]
               ELSE /\ calls' = [calls EXCEPT ![c].pc = "opening", ![c].found = found,
                                              ![c].window = after.window,
                                              ![c].opens = @ + 1]
                    /\ loader' = [loader EXCEPT !.currentTile = after.tile,
                                                !.loadingProgress = [step |-> 2]]
        /\ UNCHANGED <<pipe, appVars, cachedTiles, decoderRegistered, idx>>

OpenRejected_Retry(call) ==
    IF call.opens < 2 THEN [call EXCEPT !.opens = @ + 1]
    ELSE [call EXCEPT !.pc = "failed", !.error = "Failed to open"]

\* the catch around fromUrl and getImage: the call ends with the open error
OpenRejected(call) == [call EXCEPT !.pc = "failed", !.error = "Failed to open"]

\* fromUrl(tile.url) and getImage() resolve or reject
OpenCOG ==
    \E c \in 1..Len(calls) :
        /\ calls[c].pc = "opening"
        /\ \/ /\ calls' = [calls EXCEPT ![c].pc = "reading", ![c].reads = @ + 1]
              /\ loader' = [loader EXCEPT !.loadingProgress = [step |-> 3]]
           \/ /\ calls' = [calls EXCEPT ![c] = OpenRejected(@)]
              /\ loader' = LoaderFailed("Failed to open")
        /\ UNCHANGED <<pipe, appVars, cachedTiles, decoderRegistered, idx>>

\* readRasters resolves with the bytes of the window (then the signed view,
\* the flip, dequantize and setEmbeddingData) or rejects
ReadRasters ==
    \E c \in 1..Len(calls) :
        /\ calls[c].pc = "reading"
        /\ \/ \E seed \in 0..1, payload \in Payloads :
                LET win == calls[c].window
                    data == DecodeWindow(calls[c].bbox, win[3], win[4],
                                         AppBlock(seed, win[3] * win[4]))
                IN  /\ embeddingData' = data @@ [buf |-> <<"grid", c>>]
                    /\ calls' = [calls EXCEPT ![c].pc = "done",
                                              ![c].readUrl = calls[c].found.tile.url,
                                              ![c].decoded = ZstdDecode(payload)]
                    /\ loader' = [loader EXCEPT !.isLoading = FALSE,
                                                !.loadingProgress = NULL]
           \/ /\ calls' = [calls EXCEPT ![c].pc = "failed",
                                        ![c].readUrl = calls[c].found.tile.url,
                                        ![c].error = "Failed to download"]
              /\ loader' = LoaderFailed("Failed to download")
              /\ UNCHANGED embeddingData
        /\ UNCHANGED <<pipe, referencePixel, similarityResult, isCalculating,
                       isWorkerReady, requestIdRef, pendingResultRef, toWorker, toMain,
                       worker, mainRefs, workerRefs, hist, wizard, cachedTiles,
                       decoderRegistered, idx>>

clearTileCache ==
    /\ idx.clears < MaxClears
    /\ cachedTiles' = NULL
    /\ idx' = [idx EXCEPT !.clears = @ + 1]
    /\ UNCHANGED <<pipe, appVars, calls, loader, decoderRegistered>>

IndexSpecInit ==
    /\ pipe = PipeIdle
    /\ AppInit
    /\ cachedTiles = NULL
    /\ calls = <<>>
    /\ loader = [currentTile |-> NULL, isLoading |-> FALSE, error |-> NULL,
                 loadingProgress |-> NULL]
    /\ decoderRegistered = FALSE
    /\ \E source \in Catalogs :
          idx = [source |-> source, loads |-> 0, writes |-> 0, clears |-> 0,
                 decoders |-> 0, cacheFrom |-> 0]

IndexNext ==
    \/ LoadEmbeddings
    \/ FetchResolve
    \/ FetchReject
    \/ FindTile
    \/ OpenCOG
    \/ ReadRasters
    \/ clearTileCache

SpecIndex == IndexSpecInit /\ [][IndexNext]_vars

(***************************************************************************)
(* SpecApp: the handlers of App around a loadEmbeddings in flight.         *)
(*                                                                         *)
(* pipe holds App's boundingBox state and the pending call of              *)
(* handleLoadEmbeddings (the box its closure captured).  The panel shows   *)
(* the load button at step 2 and disables it while isLoading; Back and     *)
(* Start Over are never disabled.  The map selects an area on a click      *)
(* while the wizard is at step 1.  embeddingData keeps the bounds it was   *)
(* loaded for.                                                             *)
(***************************************************************************)
\* the value loadEmbeddings stores for a box
LoadedFor(bbox) == [bounds |-> bbox]

AppSpecInit ==
    /\ pipe = [pc |-> "app", boundingBox |-> NULL, call |-> NULL, loads |-> 0]
    /\ AppInit
    /\ IndexInit

\* handleBoundingBoxChange from a click on the map at step 1
handleBoundingBoxChange ==
    /\ wizard.step = 1
    /\ \E box \in AppBoxes :
          /\ pipe' = [pipe EXCEPT !.boundingBox = box]
          /\ wizard' = LET cleared == wizardReducer(wizard, [type |-> "CLEAR_ERROR"])
                       IN  IF cleared.step = 1
                           THEN wizardReducer(cleared, [type |-> "AREA_SELECTED"])
                           ELSE cleared
    /\ UNCHANGED <<embeddingData, referencePixel, similarityResult, isCalculating,
                   isWorkerReady, requestIdRef, pendingResultRef, toWorker, toMain,
                   worker, mainRefs, workerRefs, hist, indexVars>>

\* handleLoadEmbeddings up to the await: loadingStarted() and the start of
\* loadEmbeddings(boundingBox)
handleLoadEmbeddings ==
    /\ wizard.step = 2
    /\ ~loader.isLoading
    /\ pipe.boundingBox # NULL
    /\ pipe.loads < MaxLoads
    /\ wizard' = wizardReducer(wizard, [type |-> "LOADING_STARTED"])
    /\ pipe' = [pipe EXCEPT !.call = [bbox |-> pipe.boundingBox], !.loads = @ + 1]
    /\ loader' = [loader EXCEPT !.isLoading = TRUE, !.error = NULL,
                                !.loadingProgress = [step |-> 1]]
    /\ UNCHANGED <<embeddingData, referencePixel, similarityResult, isCalculating,
                   isWorkerReady, requestIdRef, pendingResultRef, toWorker, toMain,
                   worker, mainRefs, workerRefs, hist, cachedTiles, calls,
                   decoderRegistered, idx>>

\* the pending loadEmbeddings resolves: setCurrentTile, setEmbeddingData,
\* setIsLoading(false), then dataLoaded() in handleLoadEmbeddings
LoadResolved ==
    /\ pipe.call # NULL
    /\ embeddingData' = LoadedFor(pipe.call.bbox)
    /\ loader' = [loader EXCEPT !.currentTile = TheTile, !.isLoading = FALSE,
                                !.loadingProgress = NULL]
    /\ wizard' = wizardReducer(wizard, [type |-> "DATA_LOADED"])
    /\ pipe' = [pipe EXCEPT !.call = NULL]
    /\ UNCHANGED <<referencePixel, similarityResult, isCalculating, isWorkerReady,
                   requestIdRef, pendingResultRef, toWorker, toMain, worker,
                   mainRefs, workerRefs, hist, cachedTiles, calls,
                   decoderRegistered, idx>>

\* the pending loadEmbeddings rejects, before or after setCurrentTile: the
\* catch of loadEmbeddings, then setError(...) in handleLoadEmbeddings
LoadRejected ==
    /\ pipe.call # NULL
    /\ \E tileSet \in BOOLEAN :
          loader' = [loader EXCEPT
                        !.currentTile = IF tileSet THEN TheTile ELSE @,
                        !.error = [message |-> "load"],
                        !.isLoading = FALSE, !.loadingProgress = NULL]
    /\ wizard' = wizardReducer(wizard, [type |-> "SET_ERROR", error |-> "load"])
    /\ pipe' = [pipe EXCEPT !.call = NULL]
    /\ UNCHANGED <<embeddingData, referencePixel, similarityResult, isCalculating,
                   isWorkerReady, requestIdRef, pendingResultRef, toWorker, toMain,
                   worker, mainRefs, workerRefs, hist, cachedTiles, calls,
                   decoderRegistered, idx>>

\* handleMapClick: selectReferencePixel succeeds or fails with the click
handleMapClick ==
    /\ embeddingData # NULL
    /\ loader.currentTile # NULL
    /\ wizard.step = 3
    /\ \E success \in BOOLEAN :
          IF success
          THEN /\ referencePixel' = [bounds |-> embeddingData.bounds]
               /\ wizard' = wizardReducer(wizard, [type |-> "REFERENCE_SELECTED"])
          ELSE /\ UNCHANGED referencePixel
               /\ wizard' = wizardReducer(wizard, [type |-> "SET_ERROR",
                                                   error |-> "outside"])
    /\ UNCHANGED <<pipe, embeddingData, similarityResult, isCalculating,
                   isWorkerReady, requestIdRef, pendingResultRef, toWorker, toMain,
                   worker, mainRefs, workerRefs, hist, indexVars>>

\* handleBack: the footer's Back at steps 2 and 3, Select New Reference at 4
handleBack ==
    /\ wizard.step > 1
    /\ IF wizard.step = 4
       THEN /\ referencePixel' = NULL
            /\ similarityResult' = NULL
            /\ UNCHANGED pipe
       ELSE IF wizard.step = 2
       THEN /\ pipe' = [pipe EXCEPT !.boundingBox = NULL]
            /\ UNCHANGED <<referencePixel, similarityResult>>
       ELSE UNCHANGED <<pipe, referencePixel, similarityResult>>
    /\ wizard' = wizardReducer(wizard, [type |-> "BACK"])
    /\ UNCHANGED <<embeddingData, isCalculating, isWorkerReady, requestIdRef,
                   pendingResultRef, toWorker, toMain, worker, mainRefs,
                   workerRefs, hist, indexVars>>

\* handleReset: setBoundingBox(null), clearReference(), clearEmbeddings(),
\* reset()
handleReset ==
    /\ wizard.step > 1
    /\ pipe' = [pipe EXCEPT !.boundingBox = NULL]
    /\ referencePixel' = NULL
    /\ similarityResult' = NULL
    /\ embeddingData' = NULL
    /\ loader' = [loader EXCEPT !.currentTile = NULL, !.error = NULL,
                                !.loadingProgress = NULL]
    /\ wizard' = wizardReducer(wizard, [type |-> "RESET"])
    /\ UNCHANGED <<isCalculating, isWorkerReady, requestIdRef, pendingResultRef,
                   toWorker, toMain, worker, mainRefs, workerRefs, hist,
                   cachedTiles, calls, decoderRegistered, idx>>

AppNext ==
    \/ handleBoundingBoxChange
    \/ handleLoadEmbeddings
    \/ LoadResolved
    \/ LoadRejected
    \/ handleMapClick
    \/ handleBack
    \/ handleReset

SpecApp == AppSpecInit /\ [][AppNext]_vars

(***************************************************************************)
(* SpecWizard: the reducer of useWizard under every sequence of actions.   *)
(* pipe keeps the action dispatched last.                                  *)
(***************************************************************************)
AreaModes == {"click", "draw"}

AreaSizes == {2, 4, 6, 8, 10, 15, 20}

WizardErrors == {"outside", "load"}

\* the values of type WizardAction
WizardActions ==
    [type : {"SET_MODE"}, mode : AreaModes]
        \cup [type : {"SET_SIZE"}, size : AreaSizes]
        \cup [type : {"SET_ERROR"}, error : WizardErrors]
        \cup [type : {"AREA_SELECTED", "LOADING_STARTED", "DATA_LOADED",
                      "REFERENCE_SELECTED", "CLEAR_ERROR", "BACK", "RESET"}]

WizardInit ==
    /\ pipe = [pc |-> "wizard", action |-> [type |-> "none"]]
    /\ AppInit
    /\ IndexInit

\* dispatch(action)
Dispatch ==
    /\ \E action \in WizardActions :
          /\ wizard' = wizardReducer(wizard, action)
          /\ pipe' = [pc |-> "wizard", action |-> action]
    /\ UNCHANGED <<embeddingData, referencePixel, similarityResult, isCalculating,
                   isWorkerReady, requestIdRef, pendingResultRef, toWorker, toMain,
                   worker, mainRefs, workerRefs, hist, indexVars>>

WizardNext == Dispatch

SpecWizard == WizardInit /\ [][WizardNext]_vars

(***************************************************************************)
(* Claims about useSimilarity and the worker (checked under Spec).         *)
(***************************************************************************)
\* a step of worker.onmessage that handles a 'result' reply
ResultDelivered ==
    /\ toMain # <<>>
    /\ toMain' = Tail(toMain)
    /\ Head(toMain).type = "result"

\* C1: a reply is applied to similarityResult only if its requestId is the
\* id of the most recently issued calculate request; a reply with any other
\* requestId changes neither similarityResult nor isCalculating.
C1_OnlyLatestReplyApplied ==
    [][ /\ (similarityResult' # similarityResult /\ similarityResult' # NULL) =>
             (ResultDelivered /\ Head(toMain).requestId = hist.lastIssued)
        /\ (ResultDelivered /\ Head(toMain).requestId # hist.lastIssued) =>
             (similarityResult' = similarityResult /\ isCalculating' = isCalculating)
      ]_vars

\* a stale reply has been discarded and the latest reply is the one applied
C1_Witness ==
    /\ hist.dropped
    /\ similarityResult # NULL
    /\ hist.appliedReq = hist.lastIssued
    /\ hist.lastIssued > 1

\* C2 (as claimed): once initWorker has posted a grid the interactive
\* thread holds no usable reference to its embeddings buffer and never reads
\* it again; the worker cannot use a score buffer it has posted; no buffer is
\* usable by both threads.
C2_GridBufferHandedOver ==
    /\ \A b \in hist.posted : b \notin mainRefs /\ b \notin hist.reads
    /\ \A r \in 1..MaxRequests : <<"scores", r>> \notin workerRefs
    /\ mainRefs \cap workerRefs = {}

\* C2 (amended): initWorker posts the grid without a transfer list: the
\* worker only ever holds structured clones of the posted buffers and the
\* interactive thread keeps its own usable embeddings buffer; the worker
\* cannot use a score buffer it has posted; no buffer is usable by both
\* threads.
C2_GridBufferCopied ==
    /\ \A b \in workerRefs : \E g \in hist.posted : b = <<"clone", g>>
    /\ embeddingData # NULL => embeddingData.buf \in mainRefs
    /\ hist.reads \subseteq mainRefs
    /\ \A r \in 1..MaxRequests : <<"scores", r>> \notin workerRefs
    /\ mainRefs \cap workerRefs = {}

\* the worker holds its clone, the interactive thread has read its own grid
\* buffer after posting it and holds the transferred score buffer
C2_Witness ==
    /\ worker.loaded
    /\ workerRefs # {}
    /\ hist.reads # {}
    /\ similarityResult # NULL
    /\ similarityResult.buf \in mainRefs

\* C7: whenever the result of a successful selectReferencePixel for pixel p
\* is applied, the score stored at p equals 1.
C7_ReferenceScoresOne ==
    (similarityResult # NULL /\ hist.appliedReq > 0) =>
        ValEq(At(similarityResult.scores, hist.reqPixel[hist.appliedReq]), One)

\* C11: the worker holds one grid at a time, replaced as a whole by an init
\* message; every calculate request is scored against the grid of the last
\* init message posted before it; the scores of every applied result have
\* length width * height of the width and height stored with the result.
C11_ScoredOnLatestGrid ==
    /\ \A r \in 1..Len(hist.scoredOn) :
          hist.scoredOn[r] \in {<<"none">>, <<"clone", hist.reqGrid[r]>>}
    /\ worker.loaded =>
          /\ Len(worker.embeddings) = worker.width * worker.height * Bands
          /\ Len(worker.mask) = worker.width * worker.height
          /\ worker.polygonMask # NULL =>
                Len(worker.polygonMask.m) = worker.width * worker.height
    /\ similarityResult # NULL =>
          Len(similarityResult.scores) = similarityResult.width * similarityResult.height

\* a first request was scored on the first grid, the worker's grid was then
\* replaced, and the applied result of the second request was scored on the
\* second grid
C11_Witness ==
    /\ hist.reqGrid = << <<"grid", 1>>, <<"grid", 2>> >>
    /\ Len(hist.scoredOn) = 2
    /\ hist.appliedReq = 2
    /\ similarityResult # NULL

\* request r is the last one issued from some point on
IsLastRequest(r) == <>[](hist.lastIssued = r)

\* the worker has computed the scores of request r
ScoresComputed(r) == r <= Len(hist.scoredOn) /\ hist.scoredOn[r] # <<"none">>

\* similarityResult holds the scores of request r and isCalculating is false
ResultHeld(r) ==
    /\ hist.appliedReq = r
    /\ similarityResult # NULL
    /\ similarityResult.buf = <<"scores", r>>
    /\ ~isCalculating

\* C12: under fairness of the worker and of the reply delivery, after the
\* last successful selectReferencePixel similarityResult eventually holds the
\* scores computed for that request and isCalculating eventually becomes
\* false (stated for the requests whose scores the worker does compute).
C12_LastRequestAnswered ==
    \A r \in 1..MaxRequests :
        (IsLastRequest(r) /\ <>ScoresComputed(r)) => <>ResultHeld(r)

\* a worker failure reaches the main thread in this step: an 'error' reply
\* is handled, or worker.onerror fires
WorkerErrorReported == hist'.errors > hist.errors

\* C13: when the compute worker reports an error ('error' reply or onerror),
\* the failure is surfaced to the user as an error state (the error the App
\* shows, wizard.error) and the compute state is reset: isCalculating is
\* false and the pending result metadata is cleared.
C13_WorkerErrorSurfaced ==
    [][WorkerErrorReported =>
          /\ wizard'.error # NULL
          /\ ~isCalculating'
          /\ pendingResultRef' = NULL]_vars

\* the reset half of C13, which the handlers do perform
C13_ComputeStateReset ==
    [][WorkerErrorReported => (~isCalculating' /\ pendingResultRef' = NULL)]_vars

\* handleMapClick stored the failure that selectReferencePixel returned
SelectFailed == wizard'.error # NULL /\ wizard'.error # wizard.error

\* a reference is created in this step
ReferenceCreated == referencePixel' # NULL /\ referencePixel' # referencePixel

\* C14: a reference is only created from an in-bounds pixel whose data mask is
\* valid, with the worker ready; a selectReferencePixel that returns a failure
\* (worker not ready, click outside the grid, masked pixel) posts no message,
\* does not advance the request counter and leaves referencePixel,
\* similarityResult, isCalculating and the pending metadata unchanged.
C14_FailedSelectChangesNothing ==
    [][/\ ReferenceCreated =>
             /\ isWorkerReady
             /\ referencePixel'.pixelX \in 0..(embeddingData.width - 1)
             /\ referencePixel'.pixelY \in 0..(embeddingData.height - 1)
             /\ At(embeddingData.mask,
                   referencePixel'.pixelY * embeddingData.width
                     + referencePixel'.pixelX)
       /\ SelectFailed =>
             /\ wizard'.error.message \in {"Worker not ready", "outside", "masked"}
             /\ UNCHANGED <<toWorker, requestIdRef, referencePixel,
                            similarityResult, isCalculating, pendingResultRef>>
      ]_vars

\* a click on a masked pixel failed while an earlier request is still being
\* calculated
C14_Witness ==
    /\ wizard.error # NULL
    /\ wizard.error.message = "masked"
    /\ requestIdRef = 1
    /\ isCalculating
    /\ referencePixel = NULL

FailedOutside == wizard.error # NULL /\ wizard.error.message = "outside"

FailedNotReady == wizard.error # NULL /\ wizard.error.message = "Worker not ready"

\* the native pixel of the window that utmToPixel computes for a click
NativePixelOfClick(lat, lng) ==
    LET origin == getTileOrigin(loader.currentTile)
        click == utmToPixel(latLngToUTM(lat, lng), origin.x, origin.y, PIXEL_SIZE)
        sw == utmToPixel(latLngToUTM(embeddingData.bounds.minLat,
                                     embeddingData.bounds.minLng),
                         origin.x, origin.y, PIXEL_SIZE)
    IN  [x |-> click.x - sw.x, y |-> click.y - sw.y]

\* C24: flipVertical maps native row r to row height-1-r keeping the order
\* of pixels and bands within the row (so flipping twice is the identity),
\* and the pixel selectReferencePixel picks for a click, at
\* (localX, height-1-nativeLocalY) of the flipped grid, is the native pixel
\* (localX, nativeLocalY) of the window that utmToPixel computes for the
\* click.
C24_FlipAndClickAgree ==
    embeddingData # NULL =>
        LET raw == hist.rawData
            w == embeddingData.width
            h == embeddingData.height
            rowSize == w * Bands
            flipped == flipVertical(raw, w, h, Bands)
        IN  /\ Len(flipped) = Len(raw)
            /\ \A r \in 0..(h - 1), i \in 0..(rowSize - 1) :
                  At(flipped, (h - 1 - r) * rowSize + i) = At(raw, r * rowSize + i)
            /\ flipVertical(flipped, w, h, Bands) = raw
            /\ embeddingData.embeddings = dequantize(flipped, w, h).embeddings
            /\ referencePixel # NULL =>
                  LET native == NativePixelOfClick(referencePixel.lat,
                                                   referencePixel.lng)
                  IN  /\ referencePixel.pixelX = native.x
                      /\ referencePixel.pixelY = h - 1 - native.y
                      /\ referencePixel.vector =
                            extractEmbeddingVector(dequantize(raw, w, h).embeddings,
                                                   native.x, native.y, w)

\* a reference picked in the southern row of a 2 x 2 grid whose two rows
\* differ: row 1 of the flipped grid, native row 0
C24_Witness ==
    /\ embeddingData # NULL
    /\ embeddingData.height = 2
    /\ referencePixel # NULL
    /\ referencePixel.pixelY = 1
    /\ NativePixelOfClick(referencePixel.lat, referencePixel.lng).y = 0
    /\ flipVertical(hist.rawData, 2, 2, Bands) # hist.rawData

\* clearReference has run and no selectReferencePixel has succeeded since:
\* requests have been issued (each sets referencePixel) and referencePixel is
\* null again, which only clearReference does
ReferenceCleared == requestIdRef > 0 /\ referencePixel = NULL

\* C25: after clearReference similarityResult stays null until a later
\* selectReferencePixel succeeds: no reply to a request issued before the
\* clear is applied afterwards, whenever that reply is delivered.
C25_NoResultAfterClear == ReferenceCleared => similarityResult = NULL

(***************************************************************************)
(* Claims about the tile catalog and useCOGLoader (checked under           *)
(* SpecIndex).                                                             *)
(***************************************************************************)
CallIds == 1..Len(calls)

CrossesZones(bbox) == getUTMZone(bbox.minLng) # getUTMZone(bbox.maxLng)

\* findTileForBoundingBox has settled for call c
FindSettled(c) == calls[c].found.kind # "pending"

\* the catalog positions whose bounds (inclusive) contain the centre of bbox
Containing(tiles, bbox) ==
    {i \in 1..Len(tiles) :
        /\ 2 * tiles[i].lngLatBounds.minLng <= bbox.minLng + bbox.maxLng
        /\ bbox.minLng + bbox.maxLng <= 2 * tiles[i].lngLatBounds.maxLng
        /\ 2 * tiles[i].lngLatBounds.minLat <= bbox.minLat + bbox.maxLat
        /\ bbox.minLat + bbox.maxLat <= 2 * tiles[i].lngLatBounds.maxLat}

\* C3: as long as clearTileCache has not been called, the catalog source is
\* loaded at most once and cachedTiles is written at most once, however the
\* calls interleave.
C3_CatalogLoadedOnce ==
    idx.clears = 0 => (idx.loads <= 1 /\ idx.writes <= 1)

\* C4 (as claimed): a call whose box is not entirely inside the covering
\* tile rejects: it reads no raster data and produces no grid.
C4_PartialBoxRejected ==
    \A c \in CallIds :
        (calls[c].found.kind = "found" /\ ~calls[c].found.fullyContained) =>
            /\ calls[c].pc = "failed"
            /\ calls[c].readUrl = ""

\* C4 (amended): a box that is not entirely inside the tile containing its
\* centre is not rejected for that: the call goes on with that tile alone
\* (it becomes currentTile when found and is the only file read), and can
\* fail only by a too small window, the open or the read.
C4_PartialBoxReadFromCentreTile ==
    \A c \in CallIds :
        (calls[c].found.kind = "found" /\ ~calls[c].found.fullyContained) =>
            /\ calls[c].pc \in {"opening", "reading", "done", "failed"}
            /\ calls[c].pc = "failed" =>
                 calls[c].error \in {"too small", "Failed to open", "Failed to download"}
            /\ calls[c].readUrl \in {"", calls[c].found.tile.url}
            /\ calls[c].pc = "done" => calls[c].readUrl = calls[c].found.tile.url

\* a box reaching beyond its tile has produced the grid now held
C4_Witness ==
    \E c \in CallIds :
        /\ calls[c].found.kind = "found"
        /\ ~calls[c].found.fullyContained
        /\ calls[c].pc = "done"
        /\ embeddingData # NULL
        /\ embeddingData.bounds = calls[c].bbox
        /\ embeddingData.buf = <<"grid", c>>

\* C5 (as claimed): for a box whose minLng and maxLng are in different UTM
\* zones findTileForBoundingBox fails with the zone-crossing error whatever
\* the state of the catalog.
C5_ZoneCrossingAlways ==
    \A c \in CallIds :
        (CrossesZones(calls[c].bbox) /\ FindSettled(c)) =>
            calls[c].found.kind = "zoneError"

\* C5 (amended): for such a box findTileForBoundingBox never returns a tile
\* or null; it fails with the zone-crossing error once the catalog has been
\* obtained (from the cache or a load, empty or not), and with the load
\* error when the catalog load fails.
C5_ZoneCrossingOnceLoaded ==
    \A c \in CallIds :
        CrossesZones(calls[c].bbox) =>
            /\ calls[c].found.kind \in {"pending", "zoneError", "loadError"}
            /\ calls[c].found.kind = "zoneError" => calls[c].error = "UTM zone"
            /\ calls[c].found.kind = "loadError" =>
                 (calls[c].tiles = <<>> /\ calls[c].error = "Failed to load tile index")
            /\ calls[c].pc \in {"fetching", "find", "failed"}

\* a zone-crossing box whose centre lies in a tile of the loaded catalog has
\* failed with the zone-crossing error
C5_Witness ==
    \E c \in CallIds :
        /\ CrossesZones(calls[c].bbox)
        /\ Containing(calls[c].tiles, calls[c].bbox) # {}
        /\ calls[c].found.kind = "zoneError"

\* C6: for a single-zone box and a loaded catalog, findTileForBoundingBox
\* returns null exactly when no tile contains the box centre (bounds
\* inclusive); otherwise it returns the first containing tile in catalog
\* order, with fullyContained exactly when the four edges are inside it.
C6_FirstContainingTile ==
    \A c \in CallIds :
        (~CrossesZones(calls[c].bbox) /\ FindSettled(c)
            /\ calls[c].found.kind # "loadError") =>
            LET bbox == calls[c].bbox
                tiles == calls[c].tiles
                hits == Containing(tiles, bbox)
            IN  /\ calls[c].found.kind \in {"null", "found"}
                /\ calls[c].found.kind = "null" <=> hits = {}
                /\ hits # {} =>
                     LET first == CHOOSE i \in hits : \A j \in hits : i <= j
                         b == tiles[first].lngLatBounds
                     IN  /\ calls[c].found.tile = tiles[first]
                         /\ calls[c].found.fullyContained <=>
                              /\ b.minLng <= bbox.minLng /\ bbox.maxLng <= b.maxLng
                              /\ b.minLat <= bbox.minLat /\ bbox.maxLat <= b.maxLat

\* two catalog tiles contain the centre of a box, which lies on the edge of
\* the first; the first was returned with fullyContained false, and another
\* call has returned null from a catalog that is not empty
C6_Witness ==
    \E c, d \in CallIds :
        /\ Cardinality(Containing(calls[c].tiles, calls[c].bbox)) = 2
        /\ calls[c].found.kind = "found"
        /\ calls[c].found.tile = calls[c].tiles[1]
        /\ ~calls[c].found.fullyContained
        /\ calls[d].found.kind = "null"
        /\ calls[d].tiles # <<>>

\* the pixel window loadEmbeddings computes for call c on the tile found
WindowOf(c) ==
    LET origin == getTileOrigin(calls[c].found.tile)
    IN  bboxToPixelWindow(calls[c].bbox, origin.x, origin.y, PIXEL_SIZE)

\* call c has reached fromUrl (the file is being or has been opened)
OpenStarted(c) ==
    calls[c].pc \in {"opening", "reading", "done"} \/ calls[c].readUrl # ""

\* C17: loadEmbeddings rejects every box whose computed window has
\* width <= 0 or height <= 0, before the raster file is opened or read, and
\* no grid with a non-positive dimension is stored in embeddingData.
C17_EmptyWindowRejected ==
    /\ \A c \in CallIds :
          calls[c].found.kind = "found" =>
             IF WindowOf(c)[3] <= 0 \/ WindowOf(c)[4] <= 0
             THEN /\ calls[c].pc = "failed"
                  /\ calls[c].error = "too small"
                  /\ ~OpenStarted(c)
             ELSE calls[c].error # "too small"
    /\ embeddingData # NULL => (embeddingData.width > 0 /\ embeddingData.height > 0)

\* a box across the equator was rejected for its window after a tile was
\* found for it, while a grid of an earlier call is stored
C17_Witness ==
    /\ \E c \in CallIds :
          /\ calls[c].found.kind = "found"
          /\ calls[c].error = "too small"
          /\ WindowOf(c)[4] <= 0
    /\ embeddingData # NULL
    /\ loader.error # NULL

\* C21: across any number of loadEmbeddings calls the decoder of compression
\* code 50000 is registered before the first raster file is opened or read
\* and at most once per process; a tile payload that starts with the ZSTD
\* magic bytes is decompressed and any other payload is passed through.
C21_DecoderRegisteredOnce ==
    /\ idx.decoders <= 1
    /\ decoderRegistered <=> idx.decoders = 1
    /\ \A c \in CallIds :
          /\ decoderRegistered
          /\ calls[c].decoded # NULL =>
                LET buffer == calls[c].decoded.payload
                IN  calls[c].decoded.decompressed
                      <=> /\ Len(buffer) >= 4
                          /\ SubSeq(buffer, 1, 4) = <<40, 181, 47, 253>>

\* two calls have read their rasters, one from a ZSTD frame and one from a
\* payload that only begins like one
C21_Witness ==
    /\ Len(calls) = 2
    /\ calls[1].decoded # NULL /\ calls[1].decoded.decompressed
    /\ calls[2].decoded # NULL /\ ~calls[2].decoded.decompressed
    /\ At(calls[2].decoded.payload, 0) = 40
    /\ idx.decoders = 1

\* call c ends with a failure in this step
CallFails(c) == c <= Len(calls) /\ calls[c].pc # "failed" /\ calls'[c].pc = "failed"

\* the messages loadEmbeddings rejects with
TaggedErrors ==
    {"Failed to load tile index", "UTM zone", "No satellite data", "too small",
     "Failed to open", "Failed to download"}

\* C22: each loadEmbeddings call attempts the catalog lookup, the file open
\* and the raster read at most once each; when one of them fails the call
\* makes no further attempt, rejects with a tagged error and ends with
\* isLoading = false, loadingProgress = null and error set to the message of
\* that failure.
C22_NoRetry ==
    [][\A c \in 1..Len(calls') :
          /\ calls'[c].lookups <= 1
          /\ calls'[c].opens <= 1
          /\ calls'[c].reads <= 1
          /\ CallFails(c) =>
                /\ calls'[c].error \in TaggedErrors
                /\ ~loader'.isLoading
                /\ loader'.loadingProgress = NULL
                /\ loader'.error = [message |-> calls'[c].error]
          /\ (c <= Len(calls) /\ calls[c].pc = "failed") => calls'[c] = calls[c]
      ]_vars

\* one call failed at the open and another at the read, each after one
\* attempt
C22_Witness ==
    /\ Len(calls) = 2
    /\ calls[1].pc = "failed" /\ calls[1].error = "Failed to open"
    /\ calls[1].opens = 1 /\ calls[1].reads = 0
    /\ calls[2].pc = "failed" /\ calls[2].error = "Failed to download"
    /\ calls[2].reads = 1
    /\ ~loader.isLoading

\* the catalog query of call c has returned rows
TilesObtained(c) == calls[c].pc # "fetching" /\ calls[c].found.kind # "loadError"

\* C23: after clearTileCache the first catalog query that starts afterwards
\* performs a fresh load, and no later query returns catalog data obtained by
\* a load that started before the clear, for every interleaving of clears
\* with loads in flight.
C23_NoStaleCatalogAfterClear ==
    \A c \in CallIds :
        TilesObtained(c) => calls[c].tilesFrom >= calls[c].startedAt

\* the call whose read stored embeddingData (its buffer is <<"grid", c>>)
StoredBy == embeddingData.buf[2]

\* C27: when loadEmbeddings fails at any stage embeddingData and currentTile
\* keep the values they had before the call, so whenever embeddingData is
\* non-null currentTile is the tile it was read from (stated for the states
\* in which every call but the one that stored the grid has failed).
C27_TileOfStoredGrid ==
    (/\ embeddingData # NULL
     /\ \A c \in CallIds \ {StoredBy} : calls[c].pc = "failed")
        => loader.currentTile = calls[StoredBy].found.tile

\* the first call stored a grid of tileA, the second call ran after it and
\* failed at the open of tileB
FailedAfterStore ==
    /\ Len(calls) = 2
    /\ calls[1].pc = "done" /\ calls[1].found.tile.url = "tileA"
    /\ calls[2].pc = "failed" /\ calls[2].error = "Failed to open"
    /\ calls[2].found.tile.url = "tileB"
    /\ embeddingData # NULL /\ StoredBy = 1
    /\ loader.currentTile.url = "tileB"

\* C28: every tile returned by findTileForBoundingBox lies in the
\* projection zone of the query box: the zone number of the tile's utmZone
\* equals getUTMZone of the box's longitudes, so the eastings and northings
\* latLngToUTM computes for the box are in the tile's own projected system.
C28_TileInZoneOfBox ==
    \A c \in CallIds :
        calls[c].found.kind = "found" =>
            /\ ZoneNumberOf(calls[c].found.tile.utmZone) = getUTMZone(calls[c].bbox.minLng)
            /\ ZoneNumberOf(calls[c].found.tile.utmZone) = getUTMZone(calls[c].bbox.maxLng)

(***************************************************************************)
(* Claims about the pure pipeline (checked under SpecNum).                 *)
(***************************************************************************)
NumPixelsOf(st) == st.width * st.height

Decoded == pipe.pc \in {"grid", "init", "scored", "shown"}

\* the vector of pixel p (0-based) of the decoded grid
PixelVector(p) == [b \in 1..Bands |-> At(pipe.embeddings, p * Bands + (b - 1))]

HasNodataBand(p) ==
    \E band \in 0..(Bands - 1) : At(pipe.flippedData, p * Bands + band) = -128

AllBandsZero(p) ==
    \A band \in 0..(Bands - 1) : At(pipe.flippedData, p * Bands + band) = 0

IsZeroVector(vec) == \A b \in 1..Bands : vec[b].n = 0

\* |vec|^2 = 1: the components are n_b / sqrt(d2) with sum of n_b^2 = d2
HasUnitNorm(vec) ==
    LET s == SumTo([b \in 1..Bands |-> vec[b].n * vec[b].n], Bands)
    IN  /\ s > 0
        /\ \A b \in 1..Bands : vec[b].n # 0 => (vec[b].k = 0 /\ vec[b].d2 = s)

\* the dot product of pixel p's vector with the reference vector, written
\* out on numerators and denominators
PlainDot(p) ==
    LET vec == PixelVector(p)
        ref == pipe.refVector
        num == SumTo([b \in 1..Bands |-> vec[b].n * ref[b].n], Bands)
        dv == IF IsZeroVector(vec) THEN 1 ELSE (CHOOSE b \in 1..Bands : vec[b].n # 0)
        dr == IF IsZeroVector(ref) THEN 1 ELSE (CHOOSE b \in 1..Bands : ref[b].n # 0)
    IN  IF IsZeroVector(vec) \/ IsZeroVector(ref) THEN Zero
        ELSE MkVal(num, vec[dv].d2 * ref[dr].d2, vec[dv].k + ref[dr].k)

\* C8 (as claimed): width*height scores; pixel i scores exactly -1 if and
\* only if it is data-masked or polygon-masked; every other pixel scores the
\* plain dot product.
C8_SentinelIffMasked ==
    pipe.pc = "scored" =>
        /\ Len(pipe.scores) = NumPixelsOf(pipe)
        /\ \A p \in 0..(NumPixelsOf(pipe) - 1) :
              /\ ValEq(At(pipe.scores, p), MinusOne) <=> IsSkipped(pipe.w, p)
              /\ ~IsSkipped(pipe.w, p) => ValEq(At(pipe.scores, p), PlainDot(p))

\* C8 (amended): width*height scores; every data-masked or polygon-masked
\* pixel scores exactly -1 and every other pixel scores the plain dot product
\* of its vector with the reference vector, which may itself be -1.
C8_SentinelIfMasked ==
    pipe.pc = "scored" =>
        /\ Len(pipe.scores) = NumPixelsOf(pipe)
        /\ \A p \in 0..(NumPixelsOf(pipe) - 1) :
              /\ IsSkipped(pipe.w, p) => At(pipe.scores, p) = MinusOne
              /\ ~IsSkipped(pipe.w, p) => ValEq(At(pipe.scores, p), PlainDot(p))

\* a scored grid with a polygon-masked pixel at -1 and an unmasked pixel
\* whose dot product is -1
C8_Witness ==
    /\ pipe.pc = "scored"
    /\ \E p \in 0..(NumPixelsOf(pipe) - 1) :
          /\ At(pipe.w.mask, p) = 1
          /\ IsSkipped(pipe.w, p)
          /\ At(pipe.scores, p) = MinusOne
    /\ \E p \in 0..(NumPixelsOf(pipe) - 1) :
          /\ ~IsSkipped(pipe.w, p)
          /\ ValEq(At(pipe.scores, p), MinusOne)

\* C9: a pixel is marked invalid exactly when one of its band values is
\* -128, and every component of an invalid pixel's vector is exactly 0.
C9_InvalidIsZeroVector ==
    Decoded =>
        \A p \in 0..(NumPixelsOf(pipe) - 1) :
            /\ ~At(pipe.mask, p) <=> HasNodataBand(p)
            /\ ~At(pipe.mask, p) => IsZeroVector(PixelVector(p))

Unmasked == {p \in 0..(NumPixelsOf(pipe) - 1) : ~IsSkipped(pipe.w, p)}

\* C15: no consumer of a similarity result classifies a pixel as no-data from
\* its score alone: a pixel that is valid and inside the polygon is never
\* made transparent as masked, dropped from the statistics or hidden from the
\* tooltip because of its score.
C15_ScoreNeverMasks ==
    pipe.pc = "shown" =>
        /\ \A p \in Unmasked :
              ~At(pipe.transparent, p) /\ ~At(pipe.hidden, p)
        /\ pipe.total = Cardinality(Unmasked)

(***************************************************************************)
(* Claims about the coordinate functions (checked under SpecGeo).          *)
(***************************************************************************)
\* the native pixel of a corner of the box of the call
CornerPixel(lat, lng) ==
    LET origin == getTileOrigin(TheTile)
    IN  latLngToPixel(lat, lng, origin.x, origin.y, PIXEL_SIZE)

\* C16: bboxToPixelWindow returns [x, y, width, height] where (x, y) is the
\* native pixel of the south-west corner, width = NE.x - SW.x + 1 and
\* height = NE.y - SW.y + 1; both are at least 1 whenever NE is not south or
\* west of SW in pixel space.
C16_WindowFromCorners ==
    pipe.pc = "window" =>
        LET SW == CornerPixel(pipe.bbox.minLat, pipe.bbox.minLng)
            NE == CornerPixel(pipe.bbox.maxLat, pipe.bbox.maxLng)
            x == pipe.window[1]
            y == pipe.window[2]
            width == pipe.window[3]
            height == pipe.window[4]
        IN  /\ Len(pipe.window) = 4
            /\ x = SW.x /\ y = SW.y
            /\ x + width - 1 = NE.x
            /\ y + height - 1 = NE.y
            /\ (NE.x >= SW.x /\ NE.y >= SW.y) => (width >= 1 /\ height >= 1)

\* a window two pixels wide and three pixels high
C16_Witness ==
    /\ pipe.pc = "window"
    /\ pipe.window[3] = 2
    /\ pipe.window[4] = 3
    /\ pipe.bbox.minLng < pipe.bbox.maxLng

\* C18: utmToPixel returns (floor((easting - originX) / pixelSize),
\* floor((northing - originY) / pixelSize)): the tile origin maps to (0, 0),
\* k pixel sizes east raise x by exactly k and leave y unchanged, k pixel
\* sizes north raise y by exactly k and leave x unchanged.
C18_PixelOfPoint ==
    pipe.pc = "pixel" =>
        LET dE == pipe.utm.easting - pipe.tileOriginX
            dN == pipe.utm.northing - pipe.tileOriginY
            ps == pipe.pixelSize
        IN  /\ pipe.at.x * ps <= dE /\ dE < (pipe.at.x + 1) * ps
            /\ pipe.at.y * ps <= dN /\ dN < (pipe.at.y + 1) * ps
            /\ (dE = 0 /\ dN = 0) => pipe.at = [x |-> 0, y |-> 0]
            /\ pipe.east = [x |-> pipe.at.x + pipe.k, y |-> pipe.at.y]
            /\ pipe.north = [x |-> pipe.at.x, y |-> pipe.at.y + pipe.k]

\* a point south-west of the origin and off the pixel grid, moved by three
\* pixel sizes
C18_Witness ==
    /\ pipe.pc = "pixel"
    /\ pipe.utm.easting < pipe.tileOriginX
    /\ pipe.utm.northing < pipe.tileOriginY
    /\ pipe.at = [x |-> -2, y |-> -1]
    /\ pipe.k = MaxShift
    /\ pipe.north.y = 2

\* C19: for every longitude in [-180, 180) getUTMZone returns an integer in
\* [1, 60] equal to floor((lon + 180) / 6) + 1; getUTMZone(-180) = 1 and
\* getUTMZone(179) = 60.
C19_ZoneInRange ==
    pipe.pc = "zone" =>
        /\ pipe.zone \in 1..60
        /\ 6 * (pipe.zone - 1) <= pipe.longitude + 180
        /\ pipe.longitude + 180 < 6 * pipe.zone
        /\ pipe.longitude = -180 => pipe.zone = 1
        /\ pipe.longitude = 179 => pipe.zone = 60

\* the last longitude of the range has been mapped
C19_Witness == pipe.pc = "zone" /\ pipe.longitude = 179 /\ pipe.zone = 60

(***************************************************************************)
(* Claims about the exported file (checked under SpecTiff).                *)
(***************************************************************************)
\* the out-of-line entries of the directory, in the order written
OutOfLine == SelectSeq(pipe.entries, LAMBDA e : ~e.inline)

\* the StripOffsets value of the directory
StripOffsets ==
    LET i == CHOOSE j \in 1..Len(pipe.entries) : pipe.entries[j].tag = 273
    IN  pipe.entries[i].field

\* C20: in the file written by downloadGeoTiff the header, the directory
\* (strictly ascending tag ids, entry count = number of entries written), the
\* out-of-line values and the image data occupy pairwise disjoint byte ranges
\* in that order; every out-of-line entry's offset field points at the bytes
\* where its value was written; StripOffsets is a multiple of 4, lies after
\* all metadata, and the file length is StripOffsets + 4 * width * height.
C20_FileLayout ==
    pipe.pc = "written" =>
        LET n == Len(pipe.entries)
            m == Len(pipe.ext)
        IN  /\ pipe.header.to <= pipe.countAt.from
            /\ pipe.header.firstIFD = pipe.countAt.from
            /\ pipe.count = n
            /\ n > 0 /\ pipe.entries[1].from = pipe.countAt.to
            /\ \A i \in 1..(n - 1) :
                  /\ pipe.entries[i].tag < pipe.entries[i + 1].tag
                  /\ pipe.entries[i].to = pipe.entries[i + 1].from
            /\ pipe.nextIFDAt.from = pipe.entries[n].to
            /\ m = Len(OutOfLine) /\ m > 0
            /\ pipe.nextIFDAt.to <= pipe.ext[1].from
            /\ \A i \in 1..m :
                  /\ OutOfLine[i].tag = pipe.ext[i].tag
                  /\ OutOfLine[i].field = pipe.ext[i].from
                  /\ pipe.ext[i].to - pipe.ext[i].from
                        = OutOfLine[i].count * TypeSize(OutOfLine[i].type)
            /\ \A i \in 1..(m - 1) : pipe.ext[i].to <= pipe.ext[i + 1].from
            /\ pipe.ext[m].to <= StripOffsets
            /\ StripOffsets % 4 = 0
            /\ pipe.image.from = StripOffsets
            /\ pipe.image.to = StripOffsets + 4 * pipe.width * pipe.height
            /\ pipe.totalSize = pipe.image.to

\* a 2 x 3 raster has been written: three values out of line, the metadata
\* ending two bytes before the image data
C20_Witness ==
    /\ pipe.pc = "written"
    /\ pipe.width = 2 /\ pipe.height = 3
    /\ Len(pipe.ext) = 3
    /\ pipe.ext[3].to + 2 = pipe.image.from
    /\ pipe.totalSize = 312

(***************************************************************************)
(* Claims about the hover handler (checked under SpecGeo).                 *)
(***************************************************************************)
\* the pixel drawn at the cursor: the layer draws row 0 of the image at
\* maxLat and column 0 at minLng
DrawnAtCursor ==
    [x |-> ((pipe.lng - pipe.bounds.minLng) * pipe.width)
              \div (pipe.bounds.maxLng - pipe.bounds.minLng),
     k |-> ((pipe.bounds.maxLat - pipe.lat) * pipe.height)
              \div (pipe.bounds.maxLat - pipe.bounds.minLat)]

\* C29: the score the hover handler reports for a cursor inside the bounds is
\* the score of the grid pixel drawn there: row 0 of the scores being the
\* northern row, a cursor in the k-th row from the north reads
\* scores[k * width + x].
C29_HoverReadsDrawnPixel ==
    pipe.pc = "hover" =>
        /\ pipe.info.kind = "score"
        /\ pipe.info.index = DrawnAtCursor.k * pipe.width + DrawnAtCursor.x

(***************************************************************************)
(* Claims about App's handlers (checked under SpecApp).                    *)
(***************************************************************************)
\* C26: whenever the wizard is at step 3 or 4, a bounding box is selected
\* and embeddingData is non-null and was loaded for exactly that box, for
\* any interleaving of Back, Start Over and a new area selection with a
\* loadEmbeddings in flight.
C26_DataOfSelectedBox ==
    (pipe.pc = "app" /\ wizard.step \in {3, 4}) =>
        /\ pipe.boundingBox # NULL
        /\ embeddingData # NULL
        /\ embeddingData.bounds = pipe.boundingBox

(***************************************************************************)
(* Claims about the wizard's reducer (checked under SpecWizard).           *)
(***************************************************************************)
\* the step after the dispatch of pipe'.action, as the claim states it
StepAfter ==
    LET type == pipe'.action.type
    IN  CASE type = "AREA_SELECTED" -> wizard'.step = 2
          [] type = "DATA_LOADED" -> wizard'.step = 3
          [] type = "REFERENCE_SELECTED" -> wizard'.step = 4
          [] type = "BACK" -> IF wizard.step = 1
                              THEN wizard' = wizard
                              ELSE wizard'.step = wizard.step - 1
          [] type = "RESET" -> /\ wizard'.step = 1
                               /\ wizard'.areaMode = "click"
                               /\ wizard'.areaSize = 2
                               /\ wizard'.error = NULL
          [] OTHER -> wizard'.step = wizard.step

\* C30: after any sequence of wizard actions step is in {1,2,3,4}; it
\* changes only through AREA_SELECTED (to 2), DATA_LOADED (to 3),
\* REFERENCE_SELECTED (to 4), BACK (down by exactly one, the whole state
\* unchanged at step 1) and RESET (to step 1, mode 'click', size 2, no
\* error); SET_MODE, SET_SIZE, SET_ERROR, CLEAR_ERROR and LOADING_STARTED
\* leave step unchanged.
C30_StepRule ==
    [][pipe'.pc = "wizard" => (wizard'.step \in {1, 2, 3, 4} /\ StepAfter)]_vars

\* BACK dispatched at step 1 on a state that differs from the initial one
C30_Witness ==
    /\ pipe.pc = "wizard"
    /\ pipe.action.type = "BACK"
    /\ wizard.step = 1
    /\ wizard.areaMode = "draw"
    /\ wizard.areaSize = 20
    /\ wizard.error # NULL

====
